---- MODULE Spec2Model ----
(***************************************************************************)
(* The sync engine (RustBlockIndexer._sync_blocks, _process_block), the    *)
(* store gateway (Database.session, get/set_last_indexed_block) and the    *)
(* reorg handler (ReorgHandler.check_for_reorgs, _handle_reorg) of the     *)
(* indexer, as two cooperative tasks over one relational store and one     *)
(* chain node.  A task is suspended only at an await; every action below   *)
(* is the code between two awaits whose order matters.                     *)
(***************************************************************************)
EXTENDS Integers, Sequences, FiniteSets, TLC

\* ------------------------------------------------------------------ bounds
\* Highest block number the node ever finalizes.
MaxHead == 3
\* How many times the node replaces a tail of its canonical chain.
MaxChainReorgs == 1
\* settings.batch_size (config.py:58, default 100), scaled down.
BatchSize == 2
\* ReorgHandler.confirmation_depth (reorg_handler.py:56, default 10), scaled down.
ConfirmationDepth == 1
\* ReorgHandler.max_reorg_depth (reorg_handler.py:55, default 100), scaled down.
MaxReorgDepth == 2
\* Highest fixed head of the fault-free start-up runs (SpecLive).
MaxLiveHead == 6
\* The largest stake a bond carries.
MaxStake == 2
\* The highest block the validator specification ingests.
MaxIngested == 1
\* BulkheadConfig.max_concurrent, and how many execute() calls are made.
MaxConcurrent == 2
NumCalls == 4
\* BulkheadConfig.queue_size (resilience.py:53, default 100), scaled down.
QueueSize == 1
\* The ranges the fields of a RetryConfig are drawn from.
MaxAttempts == 5
MaxBaseDelay == 2
MaxDelayCap == 4
MaxExponentialBase == 3
MaxMultiplier == 2
\* The largest finite float, scaled down: a power above it raises
\* OverflowError, a product above it is inf.
FloatMax == 20
\* The longest deployment term, in statements.
MaxStatements == 2
\* Decimal places of a token amount: 100_000_000 dust make one token
\* (rust_indexer.py:667, 8 places), scaled down.
DustDigits == 2
\* Bits in the significand of a Python float (53), scaled down.
MantissaBits == 5
\* CircuitBreakerConfig.failure_threshold, recovery_timeout and
\* success_threshold (resilience.py:43-46, defaults 5, 60.0 and 2), scaled
\* down; how many execute() calls are in progress at once, and the last
\* reading of the clock.
FailureThreshold == 2
RecoveryTimeout == 2
SuccessThreshold == 2
NumCircuitCalls == 3
MaxTime == 4

\* settings.start_from_block (config.py:62).
StartFromBlock == 0

VARIABLES
    \* the chain node
    head,               \* blockNumber of the last finalized block
    canon,              \* canon[k]: which version of block k is canonical
    chain_reorgs,       \* tails replaced so far
    \* the relational store
    db,                 \* one field per table
    \* the sync task (RustBlockIndexer._sync_blocks)
    sync_pc,            \* "idle" | "plan" | "loop" | "post"
    last_indexed,
    latest_block_number,
    start,
    block_summaries,    \* the blockHash of each summary, in order
    idx,                \* position of the loop in block_summaries
    processed_count,
    \* what the tick has done so far (observations, not read by the code)
    failed_at,          \* number of the first block of the tick that failed, or -1
    outcome,            \* how the last loop iteration of the tick ended
    \* the reorg task (ReorgHandler)
    reorg_pc,           \* "idle" | "rollback" | "rewind" | "record" | "publish",
                        \* or "<step>_failed" while the exception of a step unwinds
    last_verified_block,
    reorg,              \* the ReorgDetection being handled
    \* a Bulkhead and the execute() calls made on it
    semaphore,          \* the value of asyncio.Semaphore: free permits
    active_count,
    call_pc,            \* per call: where it is in Bulkhead.execute
    \* a RetryMechanism inside execute()
    config,             \* its RetryConfig
    attempt,            \* the loop variable of execute
    delay,              \* what the last calculate_delay gave: [raised, value]
    retry_out,          \* how execute stands: outcome, calls of the wrapped
                        \* function, last_exception and what the exception
                        \* that left execute carries
    \* one deployment in _process_deployment_enhanced
    deploy_data,        \* the deploy as the node reports it
    transfers,          \* what _extract_transfers returned for it
    \* a CircuitBreaker and the execute() calls made on it
    circuit,            \* state, failure_count, success_count, next_attempt_time
    now,                \* time.time()
    cb_pc,              \* per call: where it is in CircuitBreaker.execute
    opened_at,          \* history: when the circuit last left closed or
                        \* half_open for open
    \* the CLI processes of RustCLIClient._run_command
    cli_pc,             \* per caller: where its _run_command is
    \* IndexerService of main.py
    service_pc          \* "running" | "signalled" | "stopped"

chainVars == <<head, canon, chain_reorgs>>
syncVars == <<sync_pc, last_indexed, latest_block_number, start, block_summaries,
              idx, processed_count, failed_at, outcome>>
reorgVars == <<reorg_pc, last_verified_block, reorg>>
bulkheadVars == <<semaphore, active_count, call_pc>>
retryVars == <<config, attempt, delay, retry_out>>
extractVars == <<deploy_data, transfers>>
circuitVars == <<circuit, now, cb_pc, opened_at>>
auxVars == <<semaphore, active_count, call_pc, config, attempt, delay, retry_out,
             deploy_data, transfers, circuit, now, cb_pc, opened_at, cli_pc,
                service_pc>>
vars == <<head, canon, chain_reorgs, db, sync_pc, last_indexed, latest_block_number,
          start, block_summaries, idx, processed_count, failed_at, outcome,
          reorg_pc, last_verified_block, reorg,
          semaphore, active_count, call_pc, config, attempt, delay, retry_out,
          deploy_data, transfers, circuit, now, cb_pc, opened_at, cli_pc,
                service_pc>>

Min(a, b) == IF a < b THEN a ELSE b
Max(a, b) == IF a > b THEN a ELSE b

\* ------------------------------------------------------------ chain node
\* A block hash names one version of one height.
Hash(k, v) == <<k, v>>
\* A payload whose blockInfo has no blockHash.
NoHash == <<>>

\* get-blocks-by-height: the canonical hash of height k.
CanonicalHash(k) == Hash(k, canon[k])

\* `blocks --block-hash h`: the full block.  Every block carries the bond of
\* validator vA (stake 100) and one justification by vA; every block above
\* genesis carries one deployment whose term holds one direct transfer.
BlockDetails(h) ==
    [blockNumber |-> h[1],
     blockHash |-> h,
     bonds |-> <<[validator |-> "vA", stake |-> 100]>>,
     justifications |-> {"vA"},
     deploys |-> IF h[1] > 0
                 THEN {[sig |-> <<"sig", h[1], h[2]>>, errored |-> FALSE,
                        amount |-> 500000000]}
                 ELSE {}]

\* A parsed answer without blockInfo.blockHash (any other JSON object in stdout).
MalformedDetails ==
    [blockNumber |-> -1, blockHash |-> NoHash, bonds |-> <<>>, justifications |-> {},
     deploys |-> {}]

\* ----------------------------------------------------------------- store
EmptyStore ==
    [blocks |-> {}, deployments |-> {}, transfers |-> {}, validator_bonds |-> {},
     block_validators |-> {}, balance_states |-> {}, validators |-> {},
     indexer_state |-> <<>>, reorgs |-> <<>>,
     epoch_transitions |-> {}, network_stats |-> {}]

\* A session whose exception path keeps what the transaction wrote.
SessionNoRollback(before, after, ok) == after

\* Database.session: commit on normal exit, rollback on any exception.
Session(before, after, ok) == IF ok THEN after ELSE before

\* Database.get_last_indexed_block: 0 when the row is missing.
GetLastIndexedBlock(d) ==
    IF d.indexer_state = <<>> THEN 0 ELSE d.indexer_state[1]

\* Database.set_last_indexed_block: upsert of the one row.
SetLastIndexedBlock(d, n) == [d EXCEPT !.indexer_state = <<n>>]

BlockNumbers(d) == {b.block_number : b \in d.blocks}
BlockHashes(d) == {b.block_hash : b \in d.blocks}

\* _process_block: "Check if already processed".
AlreadyIndexed(d, p) == p.blockHash \in BlockHashes(d)

\* --------------------------------------------------------- token amounts
RECURSIVE Power(_, _)
\* b ** n in exact arithmetic.
Power(b, n) == IF n = 0 THEN 1 ELSE b * Power(b, n - 1)

\* 100_000_000, the dust of one token.
DustPerToken == Power(10, DustDigits)

\* Decimal(amount_dust) / Decimal(100_000_000): the coefficient keeps its
\* digits and the exponent moves (exact below the 28 digits of the context).
DecimalQuotient(amount_dust) == [coef |-> amount_dust, exp |-> 0 - DustDigits]

\* A Decimal bound to the Numeric(20, 8) column amount_asi, in units of the
\* last decimal place the column keeps; digits beyond it are rounded half up.
DecimalToNumeric(x) ==
    IF x.exp + DustDigits >= 0 THEN x.coef * Power(10, x.exp + DustDigits)
    ELSE LET d == Power(10, 0 - (x.exp + DustDigits))
         IN (2 * x.coef + d) \div (2 * d)

\* n / d rounded to the nearest integer, ties to even (n >= 0, d > 0).
RoundHalfEven(n, d) ==
    LET q == n \div d
        r == n % d
    IN IF 2 * r > d \/ (2 * r = d /\ q % 2 = 1) THEN q + 1 ELSE q

RECURSIVE FloatQuotient(_, _, _)
\* a / b of two positive ints: the float m * 2^(-k) nearest to the quotient,
\* where m has MantissaBits bits.
FloatQuotient(a, b, k) ==
    IF a < b * Power(2, MantissaBits - 1) THEN FloatQuotient(2 * a, b, k + 1)
    ELSE IF a >= b * Power(2, MantissaBits) THEN FloatQuotient(a, 2 * b, k - 1)
    ELSE LET m == RoundHalfEven(a, b)
         IN IF m = Power(2, MantissaBits) THEN [m |-> m \div 2, k |-> k - 1]
            ELSE [m |-> m, k |-> k]

\* A float bound to the Numeric(20, 8) column, in the same units: the exact
\* value of the float, rounded half up at the last place the column keeps.
FloatToNumeric(x) ==
    IF x.k <= 0 THEN x.m * Power(2, 0 - x.k) * DustPerToken
    ELSE LET d == Power(2, x.k)
         IN (2 * x.m * DustPerToken + d) \div (2 * d)

\* amount_asi of an extracted transfer, as stored (lines 667 and 788).
ExtractedAmountAsi(amount_dust) == DecimalToNumeric(DecimalQuotient(amount_dust))

\* amount_asi of a genesis bond: stake / 100000000 (line 911), as stored.
GenesisAmountAsi(stake) == FloatToNumeric(FloatQuotient(stake, DustPerToken, 0))

\* ------------------------------------------------- block processor (4.E)
\* The writes of the block transaction, in the order the code issues them.
\* 1: session.add(block).
AddBlock(d, p) ==
    [d EXCEPT !.blocks = @ \cup {[block_number |-> p.blockNumber,
                                  block_hash |-> p.blockHash]}]

\* INSERT INTO validators ... ON CONFLICT (public_key) DO UPDATE.
UpsertValidator(vs, key, stake, n) ==
    IF \E v \in vs : v.public_key = key
    THEN {IF v.public_key = key
          THEN [v EXCEPT !.total_stake = Max(v.total_stake, stake),
                         !.last_seen_block = n,
                         !.status = "active"]
          ELSE v : v \in vs}
    ELSE vs \cup {[public_key |-> key, total_stake |-> stake, status |-> "active",
                   first_seen_block |-> n, last_seen_block |-> n]}

RECURSIVE UpsertAll(_, _, _, _)
UpsertAll(vs, bonds, i, n) ==
    IF i > Len(bonds) THEN vs
    ELSE UpsertAll(UpsertValidator(vs, bonds[i].validator, bonds[i].stake, n),
                   bonds, i + 1, n)

\* 2: _process_validators, the validator upserts.
UpsertValidators(d, p) ==
    [d EXCEPT !.validators = UpsertAll(@, p.bonds, 1, p.blockNumber)]

BondRows(p) ==
    {[block_hash |-> p.blockHash, block_number |-> p.blockNumber,
      validator_public_key |-> p.bonds[i].validator, stake |-> p.bonds[i].stake]
     : i \in 1..Len(p.bonds)}

\* 3: _process_validators, the ValidatorBond rows.
AddBonds(d, p) == [d EXCEPT !.validator_bonds = @ \cup BondRows(p)]

DeploymentRows(p) ==
    {[deploy_id |-> dp.sig, block_hash |-> p.blockHash,
      block_number |-> p.blockNumber, errored |-> dp.errored] : dp \in p.deploys}

\* 4: _process_deployment_enhanced, the Deployment rows.
AddDeployments(d, p) == [d EXCEPT !.deployments = @ \cup DeploymentRows(p)]

\* _extract_transfers on a term with one direct three-tuple: dropped when the
\* amount is 0, failed when the deployment errored.
TransferRows(p) ==
    {[deploy_id |-> dp.sig, block_number |-> p.blockNumber,
      amount_dust |-> dp.amount, amount_asi |-> ExtractedAmountAsi(dp.amount),
      status |-> IF dp.errored THEN "failed" ELSE "success"]
     : dp \in {x \in p.deploys : x.amount > 0}}

\* 5: _process_deployment_enhanced, the Transfer rows.
AddTransfers(d, p) == [d EXCEPT !.transfers = @ \cup TransferRows(p)]

\* _extract_genesis_from_state: the bonds of the block with a stake above 0.
GenesisBonds(p) == SelectSeq(p.bonds, LAMBDA b : b.stake > 0)

GenesisDeployId(i) == <<"genesis_bond", i, 0>>

RECURSIVE SumStake(_, _)
SumStake(bonds, i) ==
    IF i > Len(bonds) THEN 0 ELSE bonds[i].stake + SumStake(bonds, i + 1)

\* 6: _process_genesis_transfers and _process_genesis_balance_states (block 0).
\* Without a bond of positive stake _extract_genesis_from_state turns to the
\* node (lines 930-984), fails on self.client.http_port, is caught at line 997
\* and returns None: both steps log a warning and write nothing.
GenesisBootstrap(d, p) ==
    IF p.blockNumber # 0 \/ GenesisBonds(p) = <<>> THEN d
    ELSE LET gb == GenesisBonds(p) IN
      [d EXCEPT
        !.deployments = @ \cup
            {[deploy_id |-> GenesisDeployId(i), block_hash |-> p.blockHash,
              block_number |-> 0, errored |-> FALSE] : i \in 1..Len(gb)},
        !.transfers = @ \cup
            {[deploy_id |-> GenesisDeployId(i), block_number |-> 0,
              amount_dust |-> gb[i].stake,
              amount_asi |-> GenesisAmountAsi(gb[i].stake),
              status |-> "genesis_bond"]
             : i \in 1..Len(gb)},
        !.balance_states = @ \cup
            {[address |-> gb[i].validator, block_number |-> 0,
              bonded_balance_dust |-> gb[i].stake] : i \in 1..Len(gb)}
            \cup {[address |-> "PoS", block_number |-> 0,
                   bonded_balance_dust |-> SumStake(gb, 1)]}]

\* The point at which the block transaction raises; "none" when it does not.
TxnFaults == {"validator_upsert", "bond_insert", "deployment_insert",
              "transfer_insert", "genesis", "commit"}

\* How many of the six writes are issued before the transaction raises at f.
WritesBefore(f) ==
    CASE f = "validator_upsert" -> 1
      [] f = "bond_insert" -> 2
      [] f = "deployment_insert" -> 3
      [] f = "transfer_insert" -> 4
      [] f = "genesis" -> 5
      [] OTHER -> 6

\* Whether the code reaches the step f for payload p.
FaultReachable(p, f) ==
    CASE f = "validator_upsert" -> Len(p.bonds) > 0
      [] f = "bond_insert" -> Len(p.bonds) > 0
      [] f = "deployment_insert" -> p.deploys # {}
      [] f = "transfer_insert" -> p.deploys # {}
      [] f = "genesis" -> p.blockNumber = 0
      [] OTHER -> TRUE

\* The store inside the open transaction after its first n writes.
MainWrites(d, p, n) ==
    LET w1 == IF n >= 1 THEN AddBlock(d, p) ELSE d
        w2 == IF n >= 2 THEN UpsertValidators(w1, p) ELSE w1
        w3 == IF n >= 3 THEN AddBonds(w2, p) ELSE w2
        w4 == IF n >= 4 THEN AddDeployments(w3, p) ELSE w3
        w5 == IF n >= 5 THEN AddTransfers(w4, p) ELSE w4
        w6 == IF n >= 6 THEN GenesisBootstrap(w5, p) ELSE w5
    IN w6

\* A store that enforces no primary key and no unique constraint.
NoConstraint(d, p) == FALSE

\* The constraints of models.py that the inserts of the transaction can break:
\* blocks.block_number (primary key), blocks.block_hash (unique),
\* deployments.deploy_id (primary key), uq_block_validator,
\* uq_balance_address_block.
ConstraintViolated(d, p) ==
    \/ p.blockNumber \in BlockNumbers(d)
    \/ p.blockHash \in BlockHashes(d)
    \/ \E r \in DeploymentRows(p), x \in d.deployments : x.deploy_id = r.deploy_id
    \/ /\ p.blockNumber = 0
       /\ \E x \in d.deployments, i \in 1..Len(GenesisBonds(p)) :
              x.deploy_id = GenesisDeployId(i)
    \/ \E r \in BondRows(p), x \in d.validator_bonds :
          /\ x.block_hash = r.block_hash
          /\ x.validator_public_key = r.validator_public_key
    \/ /\ p.blockNumber = 0
       /\ GenesisBonds(p) # <<>>
       /\ \E x \in d.balance_states : x.block_number = 0

\* _process_block, lines 248-294: the block transaction.  [db, ok]: the store
\* afterwards, and whether it committed (FALSE: the exception leaves
\* _process_block).
ProcessMain(d, p, fault) ==
    LET ok == fault = "none" /\ ~ConstraintViolated(d, p)
    IN [db |-> Session(d, MainWrites(d, p, WritesBefore(fault)), ok), ok |-> ok]

\* The BlockValidator session against a block_validators table without its
\* foreign key on blocks.block_hash.
ProcessPostNoForeignKey(d, p, fails) ==
    LET rows == {[block_hash |-> p.blockHash, validator_public_key |-> v]
                 : v \in p.justifications}
        ok == ~fails
    IN [db |-> Session(d, [d EXCEPT !.block_validators = @ \cup rows], ok),
        ok |-> ok]

\* _process_block, lines 296-310: the BlockValidator rows, in a session of
\* their own after the commit (block_validators.block_hash is a foreign key).
ProcessPost(d, p, fails) ==
    LET rows == {[block_hash |-> p.blockHash, validator_public_key |-> v]
                 : v \in p.justifications}
        ok == ~fails /\ p.blockHash \in BlockHashes(d)
    IN [db |-> Session(d, [d EXCEPT !.block_validators = @ \cup rows], ok),
        ok |-> ok]

\* _process_block that runs the BlockValidator session again for a block it
\* finds stored.
ProcessBlockRetryPost(d, p, main, post) ==
    IF p.blockHash = NoHash THEN [db |-> d, ok |-> TRUE]
    ELSE IF AlreadyIndexed(d, p) THEN ProcessPost(d, p, post)
    ELSE LET m == ProcessMain(d, p, main) IN
         IF ~m.ok \/ p.justifications = {} THEN m
         ELSE ProcessPost(m.db, p, post)

\* _process_block as a whole, run without interruption: main names where the
\* block transaction raises ("none": nowhere), post whether the BlockValidator
\* session raises.  [db, ok]: ok is FALSE when an exception leaves it.
ProcessBlock(d, p, main, post) ==
    IF p.blockHash = NoHash THEN [db |-> d, ok |-> TRUE]
    ELSE IF AlreadyIndexed(d, p) THEN [db |-> d, ok |-> TRUE]
    ELSE LET m == ProcessMain(d, p, main) IN
         IF ~m.ok \/ p.justifications = {} THEN m
         ELSE ProcessPost(m.db, p, post)

\* --------------------------------------------------- reorg handler (4.H)
LocalHash(d, k) == (CHOOSE b \in d.blocks : b.block_number = k).block_hash

RECURSIVE OrphanedFrom(_, _, _)
\* _detect_reorg, lines 190-194: the stored hashes from k to end_block.
OrphanedFrom(d, k, end_block) ==
    IF k > end_block THEN <<>>
    ELSE IF k \in BlockNumbers(d)
         THEN <<LocalHash(d, k)>> \o OrphanedFrom(d, k + 1, end_block)
         ELSE OrphanedFrom(d, k + 1, end_block)

\* No reorg detected (_detect_reorg returns None).
NoReorg ==
    [fork_point |-> -1, depth |-> 0, orphaned_blocks |-> <<>>,
     affected_deployments |-> 0, affected_transfers |-> 0]

\* A _detect_reorg whose loop does not stop at the first mismatch.
DetectReorgLastMismatch(d, canonical_hashes, start_block, end_block) ==
    LET mismatch == {k \in start_block..end_block :
                        /\ k \in BlockNumbers(d)
                        /\ k \in DOMAIN canonical_hashes
                        /\ LocalHash(d, k) # canonical_hashes[k]}
    IN IF mismatch = {} THEN NoReorg
       ELSE LET fork_point == CHOOSE k \in mismatch : \A j \in mismatch : k >= j IN
            [fork_point |-> fork_point,
             depth |-> end_block - fork_point + 1,
             orphaned_blocks |-> OrphanedFrom(d, fork_point, end_block),
             affected_deployments |->
                 Cardinality({x \in d.deployments : x.block_number >= fork_point}),
             affected_transfers |->
                 Cardinality({x \in d.transfers : x.block_number >= fork_point})]

\* _detect_reorg: canonical_hashes maps the block numbers of the canonical
\* answer to their hashes.
DetectReorg(d, canonical_hashes, start_block, end_block) ==
    LET mismatch == {k \in start_block..end_block :
                        /\ k \in BlockNumbers(d)
                        /\ k \in DOMAIN canonical_hashes
                        /\ LocalHash(d, k) # canonical_hashes[k]}
    IN IF mismatch = {} THEN NoReorg
       ELSE LET fork_point == CHOOSE k \in mismatch : \A j \in mismatch : k <= j IN
            [fork_point |-> fork_point,
             depth |-> end_block - fork_point + 1,
             orphaned_blocks |-> OrphanedFrom(d, fork_point, end_block),
             affected_deployments |->
                 Cardinality({x \in d.deployments : x.block_number >= fork_point}),
             affected_transfers |->
                 Cardinality({x \in d.transfers : x.block_number >= fork_point})]

\* A rollback that deletes above the fork point only.
RollbackKeepsForkBlock(d, fork_point) ==
    LET gone == {b.block_hash : b \in {x \in d.blocks : x.block_number > fork_point}}
    IN [d EXCEPT
         !.balance_states = {x \in @ : x.block_number <= fork_point},
         !.transfers = {x \in @ : x.block_number <= fork_point},
         !.deployments = {x \in @ : x.block_number <= fork_point},
         !.validator_bonds = {x \in @ : x.block_number <= fork_point},
         !.block_validators = {x \in @ : x.block_hash \notin gone},
         !.blocks = {x \in @ : x.block_number <= fork_point}]

\* A rollback whose deletes start one block below the fork point.
RollbackFromParent(d, fork_point) ==
    LET gone == {b.block_hash :
                    b \in {x \in d.blocks : x.block_number >= fork_point - 1}}
    IN [d EXCEPT
         !.balance_states = {x \in @ : x.block_number < fork_point - 1},
         !.transfers = {x \in @ : x.block_number < fork_point - 1},
         !.deployments = {x \in @ : x.block_number < fork_point - 1},
         !.validator_bonds = {x \in @ : x.block_number < fork_point - 1},
         !.block_validators = {x \in @ : x.block_hash \notin gone},
         !.blocks = {x \in @ : x.block_number < fork_point - 1}]

\* _rollback_orphaned_data: the six deletes of its one transaction.
RollbackOrphanedData(d, fork_point) ==
    LET gone == {b.block_hash : b \in {x \in d.blocks : x.block_number >= fork_point}}
    IN [d EXCEPT
         !.balance_states = {x \in @ : x.block_number < fork_point},
         !.transfers = {x \in @ : x.block_number < fork_point},
         !.deployments = {x \in @ : x.block_number < fork_point},
         !.validator_bonds = {x \in @ : x.block_number < fork_point},
         !.block_validators = {x \in @ : x.block_hash \notin gone},
         !.blocks = {x \in @ : x.block_number < fork_point}]

\* _record_reorg: one row of the reorgs table.
RecordReorg(d, r) == [d EXCEPT !.reorgs = Append(@, r)]

\* ------------------------------------------------------- bulkhead (4.B)
Calls == 1..NumCalls

\* Bulkhead.__init__: a semaphore with max_concurrent permits, nothing active.
BulkheadIdle ==
    /\ semaphore = MaxConcurrent
    /\ active_count = 0
    /\ call_pc = [c \in Calls |-> "idle"]

\* asyncio.Semaphore.locked(): no permit is free.
Locked(value) == value <= 0

\* The permits when the `finally` is around wait_for as well.
AfterTimeoutReleases(value) == value + 1

\* The permits after wait_for raised TimeoutError: the `finally` that releases
\* is inside the inner try, which a timed-out call never entered.
AfterTimeout(value) == value

\* The permits after the `finally` of a call that ran: semaphore.release().
Release(value) == value + 1

\* Everything but the bulkhead stays as it is.
BulkheadOnly ==
    UNCHANGED <<head, canon, chain_reorgs, db, sync_pc, last_indexed,
                latest_block_number, start, block_summaries, idx,
                processed_count, failed_at, outcome, reorg_pc,
                last_verified_block, reorg, config, attempt, delay, retry_out,
                deploy_data, transfers, circuit, now, cb_pc, opened_at, cli_pc,
                service_pc>>

\* A call whose execute() is not in progress.
NotInProgress(c) ==
    call_pc[c] \in {"idle", "returned", "raised", "timed_out", "cancelled", "full",
                    "full_after_run"}

\* self.queue.qsize(): no statement of the module puts anything on the queue.
QSize == 0

\* asyncio.Queue(maxsize=queue_size).full().
QueueFull == IF QueueSize <= 0 THEN FALSE ELSE QSize >= QueueSize

\* execute() is called.  The entry test (semaphore.locked() and queue.full())
\* raises BulkheadFullException when both hold.  Otherwise the call takes a
\* permit or starts to wait inside wait_for(self.semaphore.acquire(), timeout).
BulkheadEnter(c) ==
    /\ NotInProgress(c)
    /\ IF Locked(semaphore) /\ QueueFull
       THEN call_pc' = [call_pc EXCEPT ![c] = "full"] /\ UNCHANGED semaphore
       ELSE IF Locked(semaphore)
       THEN call_pc' = [call_pc EXCEPT ![c] = "waiting"] /\ UNCHANGED semaphore
       ELSE /\ call_pc' = [call_pc EXCEPT ![c] = "acquired"]
            /\ semaphore' = semaphore - 1
    /\ UNCHANGED active_count
    /\ BulkheadOnly

\* A waiting call gets the permit another call released.
BulkheadAcquire(c) ==
    /\ call_pc[c] = "waiting"
    /\ ~Locked(semaphore)
    /\ call_pc' = [call_pc EXCEPT ![c] = "acquired"]
    /\ semaphore' = semaphore - 1
    /\ UNCHANGED active_count
    /\ BulkheadOnly

\* The deadline passes while the call waits: wait_for raises TimeoutError,
\* execute raises BulkheadFullException.
BulkheadTimeout(c) ==
    /\ call_pc[c] = "waiting"
    /\ call_pc' = [call_pc EXCEPT ![c] = "timed_out"]
    /\ semaphore' = AfterTimeout(semaphore)
    /\ UNCHANGED active_count
    /\ BulkheadOnly

\* The call is cancelled while it waits.
BulkheadCancelWaiting(c) ==
    /\ call_pc[c] = "waiting"
    /\ call_pc' = [call_pc EXCEPT ![c] = "cancelled"]
    /\ UNCHANGED <<semaphore, active_count>>
    /\ BulkheadOnly

\* The call is cancelled after acquire() took the permit and before wait_for
\* handed it over (a wait_for that runs acquire() in a task of its own): no
\* `finally` covers this point, the permit is not given back.
BulkheadCancelAcquired(c) ==
    /\ call_pc[c] = "acquired"
    /\ call_pc' = [call_pc EXCEPT ![c] = "cancelled"]
    /\ UNCHANGED <<semaphore, active_count>>
    /\ BulkheadOnly

\* self.active_count += 1, and the wrapped function starts.
BulkheadRun(c) ==
    /\ call_pc[c] = "acquired"
    /\ call_pc' = [call_pc EXCEPT ![c] = "running"]
    /\ active_count' = active_count + 1
    /\ UNCHANGED semaphore
    /\ BulkheadOnly

\* How execute() ends when the wrapped function ended in the way how: it
\* returns, raises an exception other than asyncio.TimeoutError, is
\* cancelled, or raises asyncio.TimeoutError, which the `except
\* asyncio.TimeoutError` around the whole body (line 266) turns into
\* BulkheadFullException.
ExecuteEnds(how) == IF how = "timeout_error" THEN "full_after_run" ELSE how

\* The wrapped function ends; the `finally` decrements active_count and
\* releases.
BulkheadFinish(c) ==
    /\ call_pc[c] = "running"
    /\ \E how \in {"returned", "raised", "cancelled", "timeout_error"} :
          call_pc' = [call_pc EXCEPT ![c] = ExecuteEnds(how)]
    /\ active_count' = active_count - 1
    /\ semaphore' = Release(semaphore)
    /\ BulkheadOnly

\* ---------------------------------------------------------- retry (4.B)
\* The RetryConfigs tried; delays in seconds, whole numbers.
RetryConfigs ==
    [max_attempts : 1..MaxAttempts,
     base_delay : 0..MaxBaseDelay,
     max_delay : 0..MaxDelayCap,
     exponential_base : 1..MaxExponentialBase,
     jitter : BOOLEAN,
     backoff_multiplier : 1..MaxMultiplier]

\* RetryConfig(): the defaults, max_delay brought into the range tried.
DefaultRetryConfig ==
    [max_attempts |-> 3, base_delay |-> 1, max_delay |-> MaxDelayCap,
     exponential_base |-> 2, jitter |-> TRUE, backoff_multiplier |-> 1]

\* random.random(), in hundredths.
Randoms == {0, 50, 99}

Inf == FloatMax + 1

\* A float product: inf when it leaves the range of floats.
Times(a, b) == IF a = Inf \/ b = Inf \/ a * b > FloatMax THEN Inf ELSE a * b

\* delay * (0.5 + random.random() * 0.5), rounded down.
Jitter(d, r) == IF d = Inf THEN Inf ELSE (d * (100 + r)) \div 200

\* No delay computed yet.
NoDelay == [raised |-> FALSE, value |-> 0, attempt |-> -1]

\* calculate_delay without the final min().
CalculateDelayUnclamped(c, n, r) ==
    IF Power(c.exponential_base, n) > FloatMax
    THEN [raised |-> TRUE, value |-> 0, attempt |-> n]
    ELSE LET d == Times(Times(c.base_delay, Power(c.exponential_base, n)),
                        c.backoff_multiplier)
             j == IF c.jitter THEN Jitter(d, r) ELSE d
         IN [raised |-> FALSE, value |-> j, attempt |-> n]

\* RetryMechanism.calculate_delay(attempt) when random.random() gives r:
\* raised is TRUE when exponential_base ** attempt raises OverflowError.
CalculateDelay(c, n, r) ==
    IF Power(c.exponential_base, n) > FloatMax
    THEN [raised |-> TRUE, value |-> 0, attempt |-> n]
    ELSE LET d == Times(Times(c.base_delay, Power(c.exponential_base, n)),
                        c.backoff_multiplier)
             j == IF c.jitter THEN Jitter(d, r) ELSE d
         IN [raised |-> FALSE, value |-> Min(j, c.max_delay), attempt |-> n]

\* execute has not been entered.
NoRetry == [outcome |-> "idle", calls |-> 0, last_exception |-> 0, carried |-> 0]

RetryIdle ==
    /\ config = DefaultRetryConfig
    /\ attempt = DefaultRetryConfig.max_attempts
    /\ delay = NoDelay
    /\ retry_out = NoRetry

\* Everything but the retry loop stays as it is.
RetryOnly ==
    UNCHANGED <<head, canon, chain_reorgs, db, sync_pc, last_indexed,
                latest_block_number, start, block_summaries, idx,
                processed_count, failed_at, outcome, reorg_pc,
                last_verified_block, reorg, semaphore, active_count, call_pc,
                deploy_data, transfers, circuit, now, cb_pc, opened_at, cli_pc,
                service_pc>>

\* RetryMechanism.execute, lines 112-125: the call fails with a retriable
\* exception and an attempt is left; the delay is computed and slept, or
\* calculate_delay raises and its OverflowError leaves execute.  An error is
\* named by the number of the call that raised it.
RetryFail ==
    /\ retry_out.outcome = "running"
    /\ attempt < config.max_attempts - 1
    /\ \E r \in Randoms :
          /\ delay' = CalculateDelay(config, attempt, r)
          /\ attempt' = IF delay'.raised THEN config.max_attempts ELSE attempt + 1
          /\ retry_out' =
                [outcome |-> IF delay'.raised THEN "overflow_error" ELSE "running",
                 calls |-> retry_out.calls + 1,
                 last_exception |-> retry_out.calls + 1,
                 carried |-> 0]
    /\ UNCHANGED config
    /\ RetryOnly

\* Lines 98-111: the call returns and execute returns its result.
RetryReturn ==
    /\ retry_out.outcome = "running"
    /\ attempt < config.max_attempts
    /\ retry_out' = [retry_out EXCEPT !.outcome = "returned", !.calls = @ + 1]
    /\ UNCHANGED <<config, attempt, delay>>
    /\ RetryOnly

\* Lines 113-138: the call of the last attempt fails with a retriable
\* exception; the loop ends and RetryExhaustedException is raised with
\* last_exception in its message.
RetryExhaust ==
    /\ retry_out.outcome = "running"
    /\ attempt = config.max_attempts - 1
    /\ retry_out' = [outcome |-> "retry_exhausted",
                     calls |-> retry_out.calls + 1,
                     last_exception |-> retry_out.calls + 1,
                     carried |-> retry_out.calls + 1]
    /\ UNCHANGED <<config, attempt, delay>>
    /\ RetryOnly

\* ------------------------------------------------- circuit breaker (4.B)
CircuitCalls == 1..NumCircuitCalls

\* next_attempt_time before the circuit has ever opened (None).
NoTime == -1

\* CircuitBreaker.__init__.
NewCircuit ==
    [state |-> "closed", failure_count |-> 0, success_count |-> 0,
     next_attempt_time |-> NoTime]

CircuitIdle ==
    /\ circuit = NewCircuit
    /\ now = 0
    /\ cb_pc = [c \in CircuitCalls |-> "idle"]
    /\ opened_at = NoTime

\* _should_attempt_reset without the comparison of line 157.
ShouldAttemptResetAtOnce(cb, t) ==
    cb.state = "open" /\ cb.next_attempt_time # NoTime

\* _should_attempt_reset at clock reading t.
ShouldAttemptReset(cb, t) ==
    cb.state = "open" /\ cb.next_attempt_time # NoTime /\ t >= cb.next_attempt_time

\* _record_success.
RecordSuccess(cb) ==
    LET reset == [cb EXCEPT !.failure_count = 0] IN
    IF reset.state # "half_open" THEN reset
    ELSE IF reset.success_count + 1 >= SuccessThreshold
         THEN [reset EXCEPT !.state = "closed", !.success_count = 0]
         ELSE [reset EXCEPT !.success_count = @ + 1]

\* _record_failure without the half_open branch of lines 177-181.
RecordFailureThresholdOnly(cb, t) ==
    LET counted == [cb EXCEPT !.failure_count = @ + 1] IN
    IF counted.state # "half_open" /\ counted.failure_count >= FailureThreshold
    THEN [counted EXCEPT !.state = "open",
                         !.next_attempt_time = t + RecoveryTimeout]
    ELSE counted

\* _record_failure at clock reading t, for an exception that is an instance of
\* expected_exception (Exception in every configuration of the module, so
\* every exception the handler of line 214 catches).
RecordFailure(cb, t) ==
    LET counted == [cb EXCEPT !.failure_count = @ + 1] IN
    IF counted.state = "half_open"
    THEN [counted EXCEPT !.state = "open", !.success_count = 0,
                         !.next_attempt_time = t + RecoveryTimeout]
    ELSE IF counted.failure_count >= FailureThreshold
         THEN [counted EXCEPT !.state = "open",
                              !.next_attempt_time = t + RecoveryTimeout]
         ELSE counted

\* Everything but the circuit breaker stays as it is.
CircuitOnly ==
    UNCHANGED <<head, canon, chain_reorgs, db, sync_pc, last_indexed,
                latest_block_number, start, block_summaries, idx,
                processed_count, failed_at, outcome, reorg_pc,
                last_verified_block, reorg, semaphore, active_count, call_pc,
                config, attempt, delay, retry_out, deploy_data, transfers,
                cli_pc,
                service_pc>>

\* execute, lines 194-207: an open circuit rejects the call or turns
\* half_open; the wrapped coroutine function is awaited otherwise.
CircuitEnter(c) ==
    /\ cb_pc[c] # "running"
    /\ IF circuit.state = "open" /\ ~ShouldAttemptReset(circuit, now)
       THEN /\ cb_pc' = [cb_pc EXCEPT ![c] = "rejected"]
            /\ UNCHANGED circuit
       ELSE /\ cb_pc' = [cb_pc EXCEPT ![c] = "running"]
            /\ circuit' = IF circuit.state = "open"
                          THEN [circuit EXCEPT !.state = "half_open",
                                               !.success_count = 0]
                          ELSE circuit
    /\ UNCHANGED <<now, opened_at>>
    /\ CircuitOnly

\* execute, lines 207-212: the wrapped function returns.
CircuitReturn(c) ==
    /\ cb_pc[c] = "running"
    /\ circuit' = RecordSuccess(circuit)
    /\ cb_pc' = [cb_pc EXCEPT ![c] = "returned"]
    /\ UNCHANGED <<now, opened_at>>
    /\ CircuitOnly

\* execute, lines 214-216: the wrapped function raises an Exception.
CircuitRaise(c) ==
    /\ cb_pc[c] = "running"
    /\ circuit' = RecordFailure(circuit, now)
    /\ cb_pc' = [cb_pc EXCEPT ![c] = "raised"]
    /\ opened_at' = IF circuit.state # "open" /\ circuit'.state = "open"
                    THEN now ELSE opened_at
    /\ UNCHANGED now
    /\ CircuitOnly

\* The task awaiting the wrapped function is cancelled: CancelledError is no
\* Exception, line 214 does not catch it and nothing is recorded.
CircuitCancel(c) ==
    /\ cb_pc[c] = "running"
    /\ cb_pc' = [cb_pc EXCEPT ![c] = "cancelled"]
    /\ UNCHANGED <<circuit, now, opened_at>>
    /\ CircuitOnly

\* The clock advances.
Tick ==
    /\ now < MaxTime
    /\ now' = now + 1
    /\ UNCHANGED <<circuit, cb_pc, opened_at>>
    /\ CircuitOnly

\* ResilientExecutor.execute with retry, circuit breaker and bulkhead set
\* (node_operations, lines 402-407): circuit_func is a lambda (line 310), for
\* which asyncio.iscoroutinefunction is false, so the first attempt of
\* RetryMechanism.execute calls it without await (line 102) and returns what
\* it gave, the coroutine object of CircuitBreaker.execute, not yet started.
\* Neither the breaker nor the bulkhead nor the wrapped function has run.
ExecutorExecute(c) ==
    /\ cb_pc[c] # "running"
    /\ cb_pc' = [cb_pc EXCEPT ![c] = "unawaited"]
    /\ UNCHANGED <<circuit, now, opened_at>>
    /\ CircuitOnly

\* --------------------------------------------------------- CLI client (4.A)
\* Who calls the client: the sync tick and the auxiliary loops, which run one
\* after the other in the sync task, and the reorg check in its own task.
Callers == {"sync_tick", "auxiliary_loops", "reorg_check"}
SameTask(a, b) == {a, b} \subseteq {"sync_tick", "auxiliary_loops"}

CliIdle == cli_pc = [t \in Callers |-> "idle"]

\* IndexerService.start waits for the shutdown signal (main.py:98).
ServiceIdle == service_pc = "running"

\* Everything but the CLI processes stays as it is.
CliOnly ==
    UNCHANGED <<head, canon, chain_reorgs, db, sync_pc, last_indexed,
                latest_block_number, start, block_summaries, idx,
                processed_count, failed_at, outcome, reorg_pc,
                last_verified_block, reorg, semaphore, active_count, call_pc,
                config, attempt, delay, retry_out, deploy_data, transfers,
                circuit, now, cb_pc, opened_at, service_pc>>

\* _run_command, lines 56-65: a client method calls _run_command, which
\* spawns the CLI process; no executor of resilience.py is on the way (the
\* module is not imported by the client or by the indexer).
RunCommand(t) ==
    /\ cli_pc[t] # "spawned"
    /\ \A u \in Callers \ {t} : SameTask(t, u) => cli_pc[u] # "spawned"
    /\ cli_pc' = [cli_pc EXCEPT ![t] = "spawned"]
    /\ CliOnly

\* Lines 67-86: the process ends with exit status 0, or with another status
\* (RuntimeError), or communicate() outlasts the timeout (TimeoutError).
CommandEnd(t) ==
    /\ cli_pc[t] = "spawned"
    /\ \E end \in {"returned", "failed", "timed_out"} :
          cli_pc' = [cli_pc EXCEPT ![t] = end]
    /\ CliOnly

\* ------------------------------------------------ transfer extractor (4.D)
\* An address string: whether it starts with 1111, and its length.
Address(id, starts1111, len) == [id |-> id, starts1111 |-> starts1111, len |-> len]
Addresses ==
    {Address("a54", TRUE, 54), Address("s53", TRUE, 53), Address("x54", FALSE, 54)}
Deployer == Address("dep", TRUE, 54)
Amounts == {0, 5}
Variables == {"to"}

\* What a Rholang term is made of, as far as the patterns can tell:
\*   match ("from", "to", n)           exact: written with exactly this spacing
\*   @vault!("transfer", target, n,    target: a quoted address or a variable
\*   ASIVault!("findOrCreate", "a", n)
\*   name = "a"
Statements ==
    [kind : {"match"}, exact : BOOLEAN, from : Addresses, to : Addresses,
     amount : Amounts]
    \cup [kind : {"vault_transfer"}, literal : {TRUE}, to : Addresses,
          amount : Amounts]
    \cup [kind : {"vault_transfer"}, literal : {FALSE}, var : Variables,
          amount : Amounts]
    \cup [kind : {"find_or_create"}, to : Addresses, amount : Amounts]
    \cup [kind : {"bind"}, var : Variables, to : Addresses]

Terms == UNION {[1..n -> Statements] : n \in 0..MaxStatements}

\* [0-9a-zA-Z0-9]{54,56} between quotes.
Alnum54to56(a) == a.len \in 54..56
\* startswith('1111') and len(...) in range(54, 57).
IsAddress(a) == a.starts1111 /\ a.len \in 54..56

\* DIRECT_TRANSFER_PATTERN matches the statement.
MatchesDirect(st) ==
    st.kind = "match" /\ st.exact /\ st.from.starts1111 /\ st.to.starts1111

\* TRANSFER_PATTERNS[i - 1] matches the statement.
MatchesPattern(i, st) ==
    CASE i = 1 -> st.kind = "vault_transfer" /\ st.literal /\ Alnum54to56(st.to)
      [] i = 2 -> st.kind = "vault_transfer" /\ ~st.literal
      [] i = 3 -> st.kind = "match" /\ Alnum54to56(st.from) /\ Alnum54to56(st.to)
      [] i = 4 -> st.kind = "find_or_create" /\ Alnum54to56(st.to)

\* "success" if not deploy_data.get("errored") else "failed".
TransferStatus(dd) == IF dd.errored THEN "failed" ELSE "success"

NewTransfer(dd, block_number, from, to, amount) ==
    [deploy_id |-> dd.sig, block_number |-> block_number, from_address |-> from,
     to_address |-> to, amount_dust |-> amount,
     amount_asi |-> ExtractedAmountAsi(amount), status |-> TransferStatus(dd)]

RECURSIVE DirectTransfers(_, _, _)
\* Lines 654-686: the transfers of the direct matches from statement i on.
DirectTransfers(dd, block_number, i) ==
    IF i > Len(dd.term) THEN <<>>
    ELSE LET st == dd.term[i]
             here == IF /\ MatchesDirect(st)
                        /\ st.from.len \in 53..56 /\ st.to.len \in 53..56
                        /\ st.amount > 0
                     THEN <<NewTransfer(dd, block_number, st.from, st.to, st.amount)>>
                     ELSE <<>>
         IN here \o DirectTransfers(dd, block_number, i + 1)

\* Line 693: the words that let the other patterns be tried.
MentionsVault(term) ==
    \E i \in 1..Len(term) : term[i].kind \in {"vault_transfer", "find_or_create"}

RECURSIVE AddressBindings(_, _, _)
\* Lines 697-717: the bindings of the `name = "address"` statements up to i,
\* later ones replacing earlier ones.
AddressBindings(term, i, var) ==
    IF i = 0 THEN <<>>
    ELSE IF term[i].kind = "bind" /\ term[i].var = var /\ IsAddress(term[i].to)
         THEN <<term[i].to>>
         ELSE AddressBindings(term, i - 1, var)

\* Lines 728-799 without the test of line 785.
PatternTransferAnyAmount(dd, block_number, i, st) ==
    LET bound(v) == AddressBindings(dd.term, Len(dd.term), v)
        to == IF i = 2 THEN bound(st.var)
              ELSE IF IsAddress(st.to) THEN <<st.to>> ELSE <<>>
        from == IF i = 3 /\ IsAddress(st.from) THEN st.from ELSE dd.deployer
    IN IF to = <<>> THEN <<>>
       ELSE <<NewTransfer(dd, block_number, from, to[1], st.amount)>>

\* Lines 728-799 for one match of TRANSFER_PATTERNS[i - 1].
PatternTransfer(dd, block_number, i, st) ==
    LET bound(v) == AddressBindings(dd.term, Len(dd.term), v)
        to == IF i = 2 THEN bound(st.var)
              ELSE IF IsAddress(st.to) THEN <<st.to>> ELSE <<>>
        from == IF i = 3 /\ IsAddress(st.from) THEN st.from ELSE dd.deployer
    IN IF to = <<>> \/ st.amount <= 0 THEN <<>>
       ELSE <<NewTransfer(dd, block_number, from, to[1], st.amount)>>

RECURSIVE PatternTransfers(_, _, _, _)
\* re.findall of TRANSFER_PATTERNS[i - 1] from statement k on.
PatternTransfers(dd, block_number, i, k) ==
    IF k > Len(dd.term) THEN <<>>
    ELSE (IF MatchesPattern(i, dd.term[k])
          THEN PatternTransfer(dd, block_number, i, dd.term[k])
          ELSE <<>>)
         \o PatternTransfers(dd, block_number, i, k + 1)

\* _extract_transfers.
ExtractTransfers(dd, block_number) ==
    LET direct == DirectTransfers(dd, block_number, 1) IN
    IF dd.term = <<>> THEN <<>>
    ELSE IF direct # <<>> THEN direct
    ELSE IF ~MentionsVault(dd.term) THEN <<>>
    ELSE PatternTransfers(dd, block_number, 1, 1)
         \o PatternTransfers(dd, block_number, 2, 1)
         \o PatternTransfers(dd, block_number, 3, 1)
         \o PatternTransfers(dd, block_number, 4, 1)

\* deploy_data.get("systemDeployError") when the key is missing.
Absent == "<absent>"

\* The deploys tried.
DeployInputs ==
    [sig : {"", "d1"}, errored : BOOLEAN,
     systemDeployError : {Absent, "", "boom"},
     deployer : {Deployer}, term : Terms]

\* Lines 365-369: the errored column of the Deployment row.
DeploymentErrored(dd) ==
    LET error_message == IF dd.systemDeployError = "" THEN Absent
                         ELSE dd.systemDeployError
    IN dd.errored \/ error_message # Absent

\* _process_deployment_enhanced with feature flag enable_rev_transfer_extraction
\* on: the Deployment row and the Transfer rows added to the session.
ProcessDeploymentEnhanced(d, block_data, dd) ==
    IF dd.sig = "" THEN d
    ELSE LET ts == ExtractTransfers(dd, block_data.blockNumber) IN
         [d EXCEPT
           !.deployments = @ \cup
               {[deploy_id |-> dd.sig, block_hash |-> block_data.blockHash,
                 block_number |-> block_data.blockNumber,
                 errored |-> DeploymentErrored(dd)]},
           !.transfers = @ \cup
               {[deploy_id |-> ts[i].deploy_id, block_number |-> ts[i].block_number,
                 amount_dust |-> ts[i].amount_dust,
                 amount_asi |-> ts[i].amount_asi, status |-> ts[i].status]
                : i \in 1..Len(ts)}]

NoDeploy ==
    [sig |-> "", errored |-> FALSE, systemDeployError |-> Absent,
     deployer |-> Deployer, term |-> <<>>]

ExtractIdle ==
    /\ deploy_data = NoDeploy
    /\ transfers = <<>>

\* The block the deployment is in.
DeployBlock == [blockHash |-> Hash(1, 1), blockNumber |-> 1]

\* _process_deployment_enhanced is run on deploy_data.
ProcessDeployment ==
    /\ db.deployments = {}
    /\ db' = ProcessDeploymentEnhanced(db, DeployBlock, deploy_data)
    /\ transfers' = IF deploy_data.sig = "" THEN <<>>
                    ELSE ExtractTransfers(deploy_data, DeployBlock.blockNumber)
    /\ UNCHANGED deploy_data
    /\ UNCHANGED <<head, canon, chain_reorgs, sync_pc, last_indexed,
                   latest_block_number, start, block_summaries, idx,
                   processed_count, failed_at, outcome, reorg_pc,
                   last_verified_block, reorg, semaphore, active_count, call_pc,
                   config, attempt, delay, retry_out, circuit, now, cb_pc,
                   opened_at, cli_pc,
                service_pc>>

\* ------------------------------------------------------------------ Init
MaxBlock == Max(MaxHead, MaxLiveHead)

SyncIdle ==
    /\ sync_pc = "idle"
    /\ last_indexed = 0
    /\ latest_block_number = 0
    /\ start = 0
    /\ block_summaries = <<>>
    /\ idx = 1
    /\ processed_count = 0
    /\ failed_at = -1
    /\ outcome = "none"

InitStore ==
    /\ db = EmptyStore
    /\ canon = [k \in 0..MaxBlock |-> 1]
    /\ chain_reorgs = 0
    /\ SyncIdle
    /\ reorg_pc = "idle"
    /\ last_verified_block = 0
    /\ reorg = NoReorg

\* An empty store, and a node that has finalized genesis only.
\* The parts of the state that the sync and reorg tasks do not touch.
AuxIdle ==
    BulkheadIdle /\ RetryIdle /\ ExtractIdle /\ CircuitIdle /\ CliIdle /\ ServiceIdle

Init == InitStore /\ head = 0 /\ AuxIdle

\* ------------------------------------------------------------ chain node
\* The node finalizes one more block.
ChainGrow ==
    /\ head < MaxHead
    /\ head' = head + 1
    /\ UNCHANGED <<canon, chain_reorgs, db>>
    /\ UNCHANGED syncVars
    /\ UNCHANGED reorgVars
    /\ UNCHANGED auxVars

\* The node replaces the tail of its chain from height f on.
ChainReorg ==
    /\ chain_reorgs < MaxChainReorgs
    /\ \E f \in 0..head :
          canon' = [k \in 0..MaxBlock |-> IF k >= f THEN canon[k] + 1 ELSE canon[k]]
    /\ chain_reorgs' = chain_reorgs + 1
    /\ UNCHANGED <<head, db>>
    /\ UNCHANGED syncVars
    /\ UNCHANGED reorgVars
    /\ UNCHANGED auxVars

\* ---------------------------------------------------- sync engine (4.F)
\* _sync_blocks returns: its locals are dead.
SyncReturn ==
    /\ sync_pc' = "idle"
    /\ last_indexed' = 0
    /\ latest_block_number' = 0
    /\ start' = 0
    /\ block_summaries' = <<>>
    /\ idx' = 1
    /\ processed_count' = 0
    /\ failed_at' = -1
    /\ outcome' = "none"

\* The summary the loop is at, and the number the tick takes it to have.
CurrentHash == block_summaries[idx]
CurrentNumber == start + idx - 1

\* The loop iteration ends with processed_count += 1.
Counted(how) ==
    /\ sync_pc' = "loop"
    /\ idx' = idx + 1
    /\ processed_count' = processed_count + 1
    /\ outcome' = how
    /\ UNCHANGED <<last_indexed, latest_block_number, start, block_summaries,
                   failed_at>>

\* The loop iteration ends by `continue` or in the except clause of the loop.
Skipped(how) ==
    /\ sync_pc' = "loop"
    /\ idx' = idx + 1
    /\ outcome' = how
    /\ failed_at' = IF failed_at = -1 THEN CurrentNumber ELSE failed_at
    /\ UNCHANGED <<last_indexed, latest_block_number, start, block_summaries,
                   processed_count>>

\* Lines 139-154: read the checkpoint and the head; go on unless the head has
\* no (or a zero) block number or the checkpoint has reached it.
SyncStart ==
    /\ sync_pc = "idle"
    /\ ~(head = 0 \/ GetLastIndexedBlock(db) >= head)
    /\ sync_pc' = "plan"
    /\ last_indexed' = GetLastIndexedBlock(db)
    /\ latest_block_number' = head
    /\ UNCHANGED <<db, start, block_summaries, idx, processed_count, failed_at,
                   outcome>>
    /\ UNCHANGED chainVars
    /\ UNCHANGED reorgVars
    /\ UNCHANGED auxVars

\* Lines 143-154: the tick that returns at once ("Already up to date", or a
\* head without a block number).
SyncUpToDate ==
    /\ sync_pc = "idle"
    /\ head = 0 \/ GetLastIndexedBlock(db) >= head
    /\ SyncReturn
    /\ UNCHANGED <<db>>
    /\ UNCHANGED chainVars
    /\ UNCHANGED reorgVars
    /\ UNCHANGED auxVars

\* The window of the tick: lines 164-171.
WindowStart(d, last) ==
    IF Cardinality(d.blocks) = 0 /\ StartFromBlock = 0 THEN 0 ELSE last + 1
WindowEnd(s, latest) == Min(s + BatchSize - 1, latest)

\* Lines 158-188: count the stored blocks, choose the window, fetch its
\* summaries.
SyncPlan ==
    /\ sync_pc = "plan"
    /\ LET s == WindowStart(db, last_indexed)
           e == WindowEnd(s, latest_block_number)
       IN /\ start' = s
          /\ block_summaries' = [i \in 1..(e - s + 1) |-> CanonicalHash(s + i - 1)]
    /\ sync_pc' = "loop"
    /\ idx' = 1
    /\ processed_count' = 0
    /\ UNCHANGED <<db, last_indexed, latest_block_number, failed_at, outcome>>
    /\ UNCHANGED chainVars
    /\ UNCHANGED reorgVars
    /\ UNCHANGED auxVars

\* Lines 195-206, up to the commit of the block transaction: fetch the block,
\* skip it when it is stored, else run the block transaction.
SyncBlock ==
    /\ sync_pc = "loop"
    /\ idx <= Len(block_summaries)
    /\ LET p == BlockDetails(CurrentHash)
           m == ProcessMain(db, p, "none")
       IN IF AlreadyIndexed(db, p)
          THEN Counted("exists") /\ UNCHANGED db
          ELSE /\ db' = m.db
               /\ IF ~m.ok THEN Skipped("txn_failed")
                  ELSE IF p.justifications = {} THEN Counted("indexed")
                  ELSE /\ sync_pc' = "post"
                       /\ outcome' = "committed"
                       /\ UNCHANGED <<last_indexed, latest_block_number, start,
                                      block_summaries, idx, processed_count,
                                      failed_at>>
    /\ UNCHANGED chainVars
    /\ UNCHANGED reorgVars
    /\ UNCHANGED auxVars

\* Lines 296-310: the BlockValidator rows of the block just committed.
SyncPostCommit ==
    /\ sync_pc = "post"
    /\ LET r == ProcessPost(db, BlockDetails(CurrentHash), FALSE)
       IN /\ db' = r.db
          /\ IF r.ok THEN Counted("indexed") ELSE Skipped("post_failed")
    /\ UNCHANGED chainVars
    /\ UNCHANGED reorgVars
    /\ UNCHANGED auxVars

\* The checkpoint the tick writes: line 216.
LastBlockNum(s, processed) == s + processed - 1

\* Lines 214-221: the checkpoint write after the batch.
SyncWrite ==
    /\ sync_pc = "loop"
    /\ idx > Len(block_summaries)
    /\ db' = IF processed_count > 0
             THEN SetLastIndexedBlock(db, LastBlockNum(start, processed_count))
             ELSE db
    /\ SyncReturn
    /\ UNCHANGED chainVars
    /\ UNCHANGED reorgVars
    /\ UNCHANGED auxVars

\* ---- the same steps when a CLI or store call fails
\* get_last_finalized_block returns None.
SyncHeadFail ==
    /\ sync_pc = "idle"
    /\ SyncReturn
    /\ UNCHANGED <<db>>
    /\ UNCHANGED chainVars
    /\ UNCHANGED reorgVars
    /\ UNCHANGED auxVars

\* get_blocks_by_height returns [].
SyncPlanFail ==
    /\ sync_pc = "plan"
    /\ SyncReturn
    /\ UNCHANGED <<db>>
    /\ UNCHANGED chainVars
    /\ UNCHANGED reorgVars
    /\ UNCHANGED auxVars

\* Line 196: the summary has no blockHash.
SyncSummaryNoHash ==
    /\ sync_pc = "loop"
    /\ idx <= Len(block_summaries)
    /\ Skipped("no_hash")
    /\ UNCHANGED <<db>>
    /\ UNCHANGED chainVars
    /\ UNCHANGED reorgVars
    /\ UNCHANGED auxVars

\* Line 201: get_block_details returns None.
SyncDetailsFail ==
    /\ sync_pc = "loop"
    /\ idx <= Len(block_summaries)
    /\ Skipped("no_details")
    /\ UNCHANGED <<db>>
    /\ UNCHANGED chainVars
    /\ UNCHANGED reorgVars
    /\ UNCHANGED auxVars

\* Lines 234-236: the block details lack blockHash; _process_block returns and
\* the loop counts the block.
SyncMalformed ==
    /\ sync_pc = "loop"
    /\ idx <= Len(block_summaries)
    /\ db' = ProcessBlock(db, MalformedDetails, "none", FALSE).db
    /\ Counted("malformed")
    /\ UNCHANGED chainVars
    /\ UNCHANGED reorgVars
    /\ UNCHANGED auxVars

\* A step of the block transaction raises.
SyncTxnFail ==
    /\ sync_pc = "loop"
    /\ idx <= Len(block_summaries)
    /\ ~AlreadyIndexed(db, BlockDetails(CurrentHash))
    /\ \E f \in TxnFaults :
          /\ FaultReachable(BlockDetails(CurrentHash), f)
          /\ db' = ProcessMain(db, BlockDetails(CurrentHash), f).db
    /\ Skipped("txn_failed")
    /\ UNCHANGED chainVars
    /\ UNCHANGED reorgVars
    /\ UNCHANGED auxVars

\* The BlockValidator session raises.
SyncPostFail ==
    /\ sync_pc = "post"
    /\ db' = ProcessPost(db, BlockDetails(CurrentHash), TRUE).db
    /\ Skipped("post_failed")
    /\ UNCHANGED chainVars
    /\ UNCHANGED reorgVars
    /\ UNCHANGED auxVars

\* set_last_indexed_block raises: the outer except swallows it.
SyncWriteFail ==
    /\ sync_pc = "loop"
    /\ idx > Len(block_summaries)
    /\ processed_count > 0
    /\ SyncReturn
    /\ UNCHANGED <<db>>
    /\ UNCHANGED chainVars
    /\ UNCHANGED reorgVars
    /\ UNCHANGED auxVars

\* --------------------------------------------------- reorg handler (4.H)
\* The window of check_for_reorgs for the checkpoint it reads.
CheckFrom(latest_local) == Max(last_verified_block, latest_local - MaxReorgDepth)
CheckTo(latest_local) == latest_local - ConfirmationDepth

\* get_blocks_by_height(check_from, check_to): the canonical hashes.
CanonicalBlocks(from, to) ==
    [k \in {j \in from..to : j >= 0 /\ j <= head} |-> CanonicalHash(k)]

\* check_for_reorgs up to the call of _handle_reorg (lines 81-124), when it gets
\* as far as comparing the window; without a mismatch it moves
\* last_verified_block.
ReorgCheck ==
    /\ reorg_pc = "idle"
    /\ LET latest_local == GetLastIndexedBlock(db)
           check_from == CheckFrom(latest_local)
           check_to == CheckTo(latest_local)
           canonical == CanonicalBlocks(check_from, check_to)
           found == DetectReorg(db, canonical, check_from, check_to)
       IN /\ latest_local >= ConfirmationDepth
          /\ check_from < check_to
          /\ DOMAIN canonical # {}
          /\ IF found.fork_point >= 0
             THEN /\ reorg' = found
                  /\ reorg_pc' = "rollback"
                  /\ UNCHANGED last_verified_block
             ELSE /\ last_verified_block' = check_to
                  /\ UNCHANGED <<reorg, reorg_pc>>
    /\ UNCHANGED <<db>>
    /\ UNCHANGED chainVars
    /\ UNCHANGED syncVars
    /\ UNCHANGED auxVars

\* _handle_reorg step 1 (_rollback_orphaned_data); step 2
\* (_reindex_canonical_blocks) only fetches and logs.
ReorgRollback ==
    /\ reorg_pc = "rollback"
    /\ db' = Session(db, RollbackOrphanedData(db, reorg.fork_point), TRUE)
    /\ reorg_pc' = "rewind"
    /\ UNCHANGED <<last_verified_block, reorg>>
    /\ UNCHANGED chainVars
    /\ UNCHANGED syncVars
    /\ UNCHANGED auxVars

\* The checkpoint _handle_reorg rewinds to: line 246.
RewindTo(fork_point) == fork_point - 1

\* _handle_reorg step 3: the checkpoint rewind.
ReorgRewind ==
    /\ reorg_pc = "rewind"
    /\ db' = SetLastIndexedBlock(db, RewindTo(reorg.fork_point))
    /\ reorg_pc' = "record"
    /\ UNCHANGED <<last_verified_block, reorg>>
    /\ UNCHANGED chainVars
    /\ UNCHANGED syncVars
    /\ UNCHANGED auxVars

\* _handle_reorg step 4 (_record_reorg); _handle_reorg returns.
ReorgRecord ==
    /\ reorg_pc = "record"
    /\ db' = Session(db, RecordReorg(db, reorg), TRUE)
    /\ reorg_pc' = "publish"
    /\ UNCHANGED <<last_verified_block, reorg>>
    /\ UNCHANGED chainVars
    /\ UNCHANGED syncVars
    /\ UNCHANGED auxVars

\* check_for_reorgs returns (after publishing the event, lines 126-138, or from
\* its except clause, lines 140-142).
ReorgReturn ==
    /\ reorg_pc \in {"publish", "rollback_failed", "rewind_failed", "record_failed"}
    /\ reorg_pc' = "idle"
    /\ reorg' = NoReorg
    /\ UNCHANGED <<db, last_verified_block>>
    /\ UNCHANGED chainVars
    /\ UNCHANGED syncVars
    /\ UNCHANGED auxVars

\* ---- the same steps when a store call fails: _handle_reorg re-raises
ReorgRollbackFail ==
    /\ reorg_pc = "rollback"
    /\ db' = Session(db, RollbackOrphanedData(db, reorg.fork_point), FALSE)
    /\ reorg_pc' = "rollback_failed"
    /\ UNCHANGED <<last_verified_block, reorg>>
    /\ UNCHANGED chainVars
    /\ UNCHANGED syncVars
    /\ UNCHANGED auxVars

ReorgRewindFail ==
    /\ reorg_pc = "rewind"
    /\ reorg_pc' = "rewind_failed"
    /\ UNCHANGED <<db, last_verified_block, reorg>>
    /\ UNCHANGED chainVars
    /\ UNCHANGED syncVars
    /\ UNCHANGED auxVars

ReorgRecordFail ==
    /\ reorg_pc = "record"
    /\ db' = Session(db, RecordReorg(db, reorg), FALSE)
    /\ reorg_pc' = "record_failed"
    /\ UNCHANGED <<last_verified_block, reorg>>
    /\ UNCHANGED chainVars
    /\ UNCHANGED syncVars
    /\ UNCHANGED auxVars

\* --------------------------------------------------------- specifications
SyncStep ==
    SyncStart \/ SyncUpToDate \/ SyncPlan \/ SyncBlock \/ SyncPostCommit \/ SyncWrite

SyncFault ==
    \/ SyncHeadFail
    \/ SyncPlanFail
    \/ SyncSummaryNoHash
    \/ SyncDetailsFail
    \/ SyncMalformed
    \/ SyncTxnFail
    \/ SyncPostFail
    \/ SyncWriteFail

ReorgStep ==
    ReorgCheck \/ ReorgRollback \/ ReorgRewind \/ ReorgRecord \/ ReorgReturn

ReorgFault == ReorgRollbackFail \/ ReorgRewindFail \/ ReorgRecordFail

\* Both tasks, any interleaving, any call may fail.
Next == SyncStep \/ SyncFault \/ ReorgStep \/ ReorgFault \/ ChainGrow \/ ChainReorg

Spec == Init /\ [][Next]_vars

\* The sync task alone, any call may fail.
NextSync == SyncStep \/ SyncFault \/ ChainGrow

SpecSync == Init /\ [][NextSync]_vars

\* Both tasks, one at a time: a tick starts only while no reorg check is in
\* progress, a reorg check only between ticks.
SerialSyncStart == reorg_pc = "idle" /\ SyncStart
SerialSyncUpToDate == reorg_pc = "idle" /\ SyncUpToDate
SerialSyncHeadFail == reorg_pc = "idle" /\ SyncHeadFail
SerialReorgCheck == sync_pc = "idle" /\ ReorgCheck

NextSerial ==
    \/ SerialSyncStart
    \/ SerialSyncUpToDate
    \/ SyncPlan
    \/ SyncBlock
    \/ SyncPostCommit
    \/ SyncWrite
    \/ SerialSyncHeadFail
    \/ SyncPlanFail
    \/ SyncSummaryNoHash
    \/ SyncDetailsFail
    \/ SyncMalformed
    \/ SyncTxnFail
    \/ SyncPostFail
    \/ SyncWriteFail
    \/ SerialReorgCheck
    \/ ReorgRollback
    \/ ReorgRewind
    \/ ReorgRecord
    \/ ReorgReturn
    \/ ReorgFault
    \/ ChainGrow
    \/ ChainReorg

SpecSerial == Init /\ [][NextSerial]_vars

\* Both tasks, any interleaving, every call succeeds.
NextRace == SyncStep \/ ReorgStep \/ ChainGrow \/ ChainReorg

SpecRace == Init /\ [][NextRace]_vars

\* The same, with both loops scheduled again and again: main.py runs the
\* sync loop forever, and each of its steps returns or raises in finite time.
SpecRaceFair == SpecRace /\ WF_vars(SyncStep) /\ WF_vars(ReorgStep)

\* Start-up: an empty store, a node whose head stays at some H, the sync loop
\* alone, every call succeeds.
InitLive == InitStore /\ head \in 0..MaxLiveHead /\ AuxIdle

SpecLive == InitLive /\ [][SyncStep]_vars /\ WF_vars(SyncStep)

\* ------------------------------------------- validator states (4.E, 4.G)
ValidatorKeys == {"vA", "vB"}
Stakes == 1..MaxStake

\* _update_validator_states, lines 426-443: INSERT ... ON CONFLICT
\* (public_key) DO UPDATE SET total_stake = stake, ...
RefreshValidator(vs, key, stake, is_active, current_block) ==
    LET status == IF is_active THEN "active" ELSE "bonded" IN
    IF \E v \in vs : v.public_key = key
    THEN {IF v.public_key = key
          THEN [v EXCEPT !.total_stake = stake,
                         !.last_seen_block = current_block,
                         !.status = status]
          ELSE v : v \in vs}
    ELSE vs \cup {[public_key |-> key, total_stake |-> stake, status |-> status,
                   first_seen_block |-> current_block,
                   last_seen_block |-> current_block]}

\* What get_active_validators answers (rust_cli_client.py:344-378): a list
\* of dicts {'validator': key, 'stake': n}, here as the set of its entries.
ActiveAnswers ==
    {{[validator |-> v, stake |-> 1] : v \in keys} : keys \in SUBSET ValidatorKeys}

\* str == dict in Python: objects of different types are never equal.
StrEqualsDict(key, entry) == FALSE

\* Line 421, `validator_key in active_validators`: the key, a str, is
\* compared with each entry of the list, a dict.
IsActive(key, active_validators) ==
    \E entry \in active_validators : StrEqualsDict(key, entry)

RECURSIVE RefreshAll(_, _, _, _, _)
\* The loop over the bonds the node reports (lines 418-443).
RefreshAll(vs, bonds, i, active_validators, current_block) ==
    IF i > Len(bonds) THEN vs
    ELSE RefreshAll(RefreshValidator(vs, bonds[i].validator, bonds[i].stake,
                                     IsActive(bonds[i].validator,
                                              active_validators),
                                     current_block),
                    bonds, i + 1, active_validators, current_block)

\* What `bonds` can answer: no bond, or one bond per validator of a set.
NodeBonds ==
    {<<>>}
    \cup {<<[validator |-> v, stake |-> s]>> : v \in ValidatorKeys, s \in Stakes}
    \cup {<<[validator |-> "vA", stake |-> s], [validator |-> "vB", stake |-> t]>>
          : s \in Stakes, t \in Stakes}

\* _update_validator_states with the answers of the node: one session.
UpdateValidatorStates ==
    /\ \E bonds \in NodeBonds, active_validators \in ActiveAnswers :
          db' = Session(db,
                        [db EXCEPT !.validators =
                            RefreshAll(@, bonds, 1, active_validators,
                                       GetLastIndexedBlock(db))],
                        TRUE)
    /\ UNCHANGED chainVars
    /\ UNCHANGED syncVars
    /\ UNCHANGED reorgVars
    /\ UNCHANGED auxVars

\* The block the next tick ingests, carrying the bonds the node had then.
NextBlock(d, bonds) ==
    [BlockDetails(Hash(Cardinality(d.blocks), 1)) EXCEPT !.bonds = bonds]

\* A tick of the sync loop for the one next block: _process_block (with
\* _process_validators inside), then the checkpoint.
IngestBlock ==
    /\ Cardinality(db.blocks) <= MaxIngested
    /\ \E bonds \in NodeBonds :
          LET p == NextBlock(db, bonds)
              r == ProcessBlock(db, p, "none", FALSE)
          IN db' = SetLastIndexedBlock(r.db, p.blockNumber)
    /\ UNCHANGED chainVars
    /\ UNCHANGED syncVars
    /\ UNCHANGED reorgVars
    /\ UNCHANGED auxVars

\* Block ingestion and validator refresh, in any order, as the loop of start()
\* alternates them (lines 109-110) while the bonds on the node change.
NextValidators == IngestBlock \/ UpdateValidatorStates

SpecValidators == Init /\ [][NextValidators]_vars

\* -------------------------------------- bulkhead, retry, extractor alone
\* Calls of Bulkhead.execute on one bulkhead, interleaved at their awaits.
InitBulkhead ==
    /\ InitStore /\ head = 0
    /\ BulkheadIdle /\ RetryIdle /\ ExtractIdle /\ CircuitIdle /\ CliIdle /\ ServiceIdle

NextBulkhead ==
    \E c \in Calls :
        \/ BulkheadEnter(c)
        \/ BulkheadAcquire(c)
        \/ BulkheadTimeout(c)
        \/ BulkheadCancelWaiting(c)
        \/ BulkheadCancelAcquired(c)
        \/ BulkheadRun(c)
        \/ BulkheadFinish(c)

SpecBulkhead == InitBulkhead /\ [][NextBulkhead]_vars

\* A CircuitBreaker with calls in progress and a clock.
InitCircuit ==
    /\ InitStore /\ head = 0
    /\ BulkheadIdle /\ RetryIdle /\ ExtractIdle /\ CircuitIdle /\ CliIdle /\ ServiceIdle

NextCircuit ==
    \/ Tick
    \/ \E c \in CircuitCalls :
          \/ CircuitEnter(c)
          \/ CircuitReturn(c)
          \/ CircuitRaise(c)
          \/ CircuitCancel(c)

SpecCircuit == InitCircuit /\ [][NextCircuit]_vars

\* Calls through the executor; a caller may go on to await the coroutine
\* object it was handed, which is the breaker's execute (CircuitEnter).
NextExecutor ==
    \/ Tick
    \/ \E c \in CircuitCalls :
          \/ ExecutorExecute(c)
          \/ CircuitEnter(c)
          \/ CircuitReturn(c)
          \/ CircuitRaise(c)
          \/ CircuitCancel(c)

SpecExecutor == InitCircuit /\ [][NextExecutor]_vars

\* The CLI calls of the tasks; nothing in the program drives the
\* node_operations executor, whose circuit stays as constructed.
NextCli == \E t \in Callers : RunCommand(t) \/ CommandEnd(t)

SpecCli == InitCircuit /\ [][NextCli]_vars

\* RetryMechanism.execute for any of the configurations.
InitRetry ==
    /\ InitStore /\ head = 0 /\ BulkheadIdle /\ ExtractIdle /\ CircuitIdle
    /\ CliIdle /\ ServiceIdle
    /\ config \in RetryConfigs
    /\ attempt = 0
    /\ delay = NoDelay
    /\ retry_out = [NoRetry EXCEPT !.outcome = "running"]

NextRetry == RetryFail \/ RetryReturn \/ RetryExhaust

SpecRetry == InitRetry /\ [][NextRetry]_vars

\* _process_deployment_enhanced on any of the deploys.
InitExtract ==
    /\ InitStore /\ head = 0 /\ BulkheadIdle /\ RetryIdle /\ CircuitIdle
    /\ CliIdle /\ ServiceIdle
    /\ deploy_data \in DeployInputs
    /\ transfers = <<>>

\* The stakes and the bonds of the genesis blocks tried.
GenesisStakes == {0, 100, 129}
GenesisBondInputs ==
    UNION {[1..n -> [validator : {"vA", "vB"}, stake : GenesisStakes]] : n \in 0..2}

\* _process_genesis_transfers and _process_genesis_balance_states are run on
\* a genesis block that carries bonds and no deployment.
ProcessGenesis ==
    /\ deploy_data = NoDeploy
    /\ db.deployments = {}
    /\ \E bonds \in GenesisBondInputs :
          db' = GenesisBootstrap(db, [blockNumber |-> 0, blockHash |-> Hash(0, 1),
                                      bonds |-> bonds])
    /\ UNCHANGED <<deploy_data, transfers>>
    /\ UNCHANGED <<head, canon, chain_reorgs, sync_pc, last_indexed,
                   latest_block_number, start, block_summaries, idx,
                   processed_count, failed_at, outcome, reorg_pc,
                   last_verified_block, reorg, semaphore, active_count, call_pc,
                   config, attempt, delay, retry_out, circuit, now, cb_pc,
                   opened_at, cli_pc,
                service_pc>>

NextExtract == ProcessDeployment \/ ProcessGenesis

SpecExtract == InitExtract /\ [][NextExtract]_vars

\* ------------------------------------------------------------------ claims
\* What the store holds for block number k.
BlocksAt(d, k) == {b \in d.blocks : b.block_number = k}

\* Every row of the store that belongs to the block with hash h, number k.
RowsOfBlock(d, h, k) ==
    [blocks |-> {x \in d.blocks : x.block_hash = h \/ x.block_number = k},
     deployments |-> {x \in d.deployments : x.block_hash = h},
     transfers |-> {x \in d.transfers :
                       \E dp \in d.deployments :
                           dp.deploy_id = x.deploy_id /\ dp.block_hash = h},
     validator_bonds |-> {x \in d.validator_bonds : x.block_hash = h},
     block_validators |-> {x \in d.block_validators : x.block_hash = h}]

NoRows ==
    [blocks |-> {}, deployments |-> {}, transfers |-> {}, validator_bonds |-> {},
     block_validators |-> {}]

\* The loop of a tick is over: the next step is the checkpoint write.
AtWrite == sync_pc = "loop" /\ idx > Len(block_summaries)

\* C1 (contiguity under block failures): between sync ticks, once block 0 is
\* stored and the checkpoint row holds N, every k in 0..N has exactly one
\* Block row.
C1_ContiguousUpToCheckpoint ==
    (sync_pc = "idle" /\ db.indexer_state # <<>> /\ BlocksAt(db, 0) # {})
        => \A k \in 0..db.indexer_state[1] : Cardinality(BlocksAt(db, k)) = 1

\* C2 (checkpoint stops at the first failure): when a tick in which block k
\* was the first to fail writes the checkpoint, it writes k - 1, and it writes
\* nothing when k is the first block of the window.
C2_CheckpointStopsAtFirstFailure ==
    [][(AtWrite /\ sync_pc' = "idle" /\ failed_at # -1
            /\ db'.indexer_state # db.indexer_state)
        => (failed_at > start /\ db'.indexer_state = <<failed_at - 1>>)]_vars

Payloads ==
    {BlockDetails(Hash(k, v)) : k \in 0..MaxHead, v \in 1..(MaxChainReorgs + 1)}
        \cup {MalformedDetails}
Environments == ((TxnFaults \cup {"none"}) \X {FALSE}) \cup {<<"none", TRUE>>}

\* C4 (idempotence): on every store, for every payload B and however the
\* first _process_block(B) went, a second one that meets the same failures, or
\* none, leaves the store the first one left, unless the first one raised
\* without storing the block and the second one does not.
C4_ProcessBlockIdempotent ==
    \A p \in Payloads, e1 \in Environments :
        LET once == ProcessBlock(db, p, e1[1], e1[2]) IN
        \A e2 \in {e1, <<"none", FALSE>>} :
            (once.ok \/ AlreadyIndexed(once.db, p) \/ e1 = e2)
                => ProcessBlock(once.db, p, e2[1], e2[2]).db = once.db

\* A tick has just met a block that is stored already.
C4_Witness == outcome = "exists" /\ processed_count > 0

\* C8 (checkpoint monotonicity): no step of a sync tick lowers the
\* checkpoint that get_last_indexed_block reads (0 while the row is missing).
C8_CheckpointNeverDecreases ==
    [][GetLastIndexedBlock(db') >= GetLastIndexedBlock(db)]_vars

\* No row of a block-scoped table carries a block number of f or more.
NoRowFrom(d, f) ==
    /\ \A x \in d.blocks : x.block_number < f
    /\ \A x \in d.deployments : x.block_number < f
    /\ \A x \in d.transfers : x.block_number < f
    /\ \A x \in d.validator_bonds : x.block_number < f
    /\ \A x \in d.block_validators : x.block_hash[1] < f
    /\ \A x \in d.balance_states : x.block_number < f

C6_ContiguousWhenBothIdle ==
    (sync_pc = "idle" /\ reorg_pc = "idle" /\ db.indexer_state # <<>>)
        => \A k \in 0..db.indexer_state[1] : BlocksAt(db, k) # {}

\* The three effects of _handle_reorg on the store, for the reorg in hand.
Rolled ==
    \A i \in 1..Len(reorg.orphaned_blocks) :
        reorg.orphaned_blocks[i] \notin BlockHashes(db)
Kept ==
    \A i \in 1..Len(reorg.orphaned_blocks) :
        reorg.orphaned_blocks[i] \in BlockHashes(db)
Rewound == db.indexer_state = <<reorg.fork_point - 1>>
Recorded == \E i \in 1..Len(db.reorgs) : db.reorgs[i] = reorg

\* C7 (atomic reorg handling): when _handle_reorg has returned or raised for
\* fork point f, either the orphaned rows are deleted, the checkpoint is
\* f - 1 and the ReorgRecord is stored, or the orphaned blocks are all still
\* stored, the checkpoint is still f or more and no ReorgRecord is stored.
C7_ReorgHandlingAtomic ==
    reorg_pc \in {"publish", "rollback_failed", "rewind_failed", "record_failed"}
        => \/ Rolled /\ Rewound /\ Recorded
           \/ Kept /\ GetLastIndexedBlock(db) >= reorg.fork_point /\ ~Recorded

\* Blocks 0..head are stored and the checkpoint is the head.
SyncedToHead ==
    /\ \A k \in 0..head : Cardinality(BlocksAt(db, k)) = 1
    /\ db.indexer_state = <<head>>

\* C9 (start-up liveness): from the empty store, with the head fixed at any
\* H >= 0 and every call succeeding, eventually blocks 0..H are stored and
\* the checkpoint is H.
C9_EventuallySynced == <>SyncedToHead

\* Blocks f..head are stored with their canonical hashes and the checkpoint
\* is the head.
CanonicalFrom(f) ==
    /\ \A k \in f..head :
          BlocksAt(db, k) = {[block_number |-> k, block_hash |-> CanonicalHash(k)]}
    /\ db.indexer_state = <<head>>

\* C10 (convergence after a reorg): once a reorg with fork point f has been
\* handled and the node replaces no further tail, eventually every block of
\* f..head is stored with its canonical hash and the checkpoint is the head.
C10_ConvergesAfterReorg ==
    \A f \in 0..MaxHead :
        (reorg_pc = "publish" /\ reorg.fork_point = f
            /\ chain_reorgs = MaxChainReorgs)
        ~> CanonicalFrom(f)

\* What check_for_reorgs started now would find: the ReorgDetection it hands
\* to _handle_reorg, or NoReorg when it returns None (lines 81-113).
CheckForReorgs ==
    LET latest_local == GetLastIndexedBlock(db)
        check_from == CheckFrom(latest_local)
        check_to == CheckTo(latest_local)
        canonical == CanonicalBlocks(check_from, check_to)
    IN IF latest_local < ConfirmationDepth THEN NoReorg
       ELSE IF check_from >= check_to THEN NoReorg
       ELSE IF DOMAIN canonical = {} THEN NoReorg
       ELSE DetectReorg(db, canonical, check_from, check_to)

\* The stored block numbers whose hash is not the canonical one.
Diverging ==
    {k \in BlockNumbers(db) : k <= head /\ LocalHash(db, k) # CanonicalHash(k)}

\* The lowest of them is k.
LowestDivergence(k) == k \in Diverging /\ \A j \in Diverging : k <= j

\* C11 (reorg at the edge of the window): between ticks and checks, with the
\* checkpoint at L >= confirmation_depth and the lowest diverging stored block
\* at L - confirmation_depth, the next check_for_reorgs detects a reorg with
\* that fork point.
C11_EdgeReorgDetected ==
    (sync_pc = "idle" /\ reorg_pc = "idle"
        /\ GetLastIndexedBlock(db) >= ConfirmationDepth
        /\ LowestDivergence(GetLastIndexedBlock(db) - ConfirmationDepth))
    => CheckForReorgs.fork_point = GetLastIndexedBlock(db) - ConfirmationDepth


\* The stored chain left the canonical one below the deepest block a check
\* looks at, and every stored block from there on differs.
DeepDivergence ==
    \E k \in Diverging :
        /\ LowestDivergence(k)
        /\ k < GetLastIndexedBlock(db) - MaxReorgDepth
        /\ \A j \in BlockNumbers(db) : (j >= k /\ j <= head) => j \in Diverging

\* C12 (reorg deeper than max_reorg_depth): a check_for_reorgs that starts
\* while the stored chain diverges below last_indexed_block - max_reorg_depth
\* does not go on to _handle_reorg, whose steps delete rows and rewind the
\* checkpoint: the store is as it was when the check returns.
C12_DeepReorgNoRollback ==
    [][(sync_pc = "idle" /\ DeepDivergence /\ ReorgCheck)
          => (reorg_pc' = "idle" /\ db' = db)]_vars

\* The block rows a step removes, and the hashes a detection lists.
DeletedBlocks(before, after) == before.blocks \ after.blocks
OrphanedHashes(r) == {r.orphaned_blocks[i] : i \in 1..Len(r.orphaned_blocks)}

\* The sync task is between ticks and the store holds exactly the blocks
\* 0..last_indexed_block.
Settled ==
    sync_pc = "idle" /\ BlockNumbers(db) = 0..GetLastIndexedBlock(db)

\* C13 (the audit row of a reorg): the rollback of a handled reorg deletes as
\* many blocks as the detection's depth says, and exactly the blocks whose
\* hashes the detection lists as orphaned; _record_reorg then appends that
\* detection as one row of the reorgs table. Stated for a store without gaps
\* and a sync task that is not running.
C13_ReorgRecordMatchesRollback ==
    [][/\ (Settled /\ ReorgRollback) =>
            /\ reorg.depth = Cardinality(DeletedBlocks(db, db'))
            /\ OrphanedHashes(reorg) = {b.block_hash : b \in DeletedBlocks(db, db')}
       /\ ReorgRecord =>
            /\ Len(db'.reorgs) = Len(db.reorgs) + 1
            /\ db'.reorgs[Len(db'.reorgs)] = reorg]_vars

\* The foreign keys of models.py onto blocks: which rows of d point at a stored
\* block.
RefersToBlock(d) ==
    /\ \A x \in d.deployments :
          x.block_number \in BlockNumbers(d) /\ x.block_hash \in BlockHashes(d)
    /\ \A x \in d.transfers : x.block_number \in BlockNumbers(d)
    /\ \A x \in d.validator_bonds :
          x.block_number \in BlockNumbers(d) /\ x.block_hash \in BlockHashes(d)
    /\ \A x \in d.block_validators : x.block_hash \in BlockHashes(d)
    /\ \A x \in d.balance_states : x.block_number \in BlockNumbers(d)

\* C14 (referential integrity): whatever the order of the steps of the sync
\* task and of the reorg handler, every Deployment, Transfer, ValidatorBond,
\* BlockValidator and BalanceState row refers to a stored block.
C14_RowsReferToStoredBlock == RefersToBlock(db)

\* The rollback removed a block between its commit and its BlockValidator
\* session, and the store refused the rows.
C14_Witness ==
    /\ outcome = "post_failed"
    /\ db.block_validators # {}
    /\ Len(db.reorgs) + (IF reorg_pc \in {"rewind", "record"} THEN 1 ELSE 0) > 0

\* C15 (uniqueness): whatever the order of sync ticks and reorg handling, no
\* two Block rows share a block_number or a block_hash, and no deploy_id is
\* stored for more than one block.
C15_BlocksAndDeploysUnique ==
    /\ \A b1, b2 \in db.blocks :
          (b1.block_number = b2.block_number \/ b1.block_hash = b2.block_hash)
              => b1 = b2
    /\ \A x, y \in db.deployments : x.deploy_id = y.deploy_id => x = y

\* The sync task met a block number that is stored under another hash, and the
\* block transaction was refused.
C15_Witness ==
    /\ outcome = "txn_failed"
    /\ \E b \in db.blocks :
          b.block_number <= head /\ b.block_hash # CanonicalHash(b.block_number)

\* The total_stake stored for validator key, 0 while it has no row.
TotalStake(d, key) ==
    IF \E v \in d.validators : v.public_key = key
    THEN (CHOOSE v \in d.validators : v.public_key = key).total_stake
    ELSE 0

\* C16 (stake never decreases): no block ingestion and no validator refresh
\* lowers the total_stake of a validator.
C16_TotalStakeNeverDecreases ==
    [][\A key \in ValidatorKeys : TotalStake(db', key) >= TotalStake(db, key)]_vars

\* The calls whose wrapped function is running.
Running == {c \in Calls : call_pc[c] = "running"}

\* C17 (bulkhead bound): however the execute() calls interleave, fail, time
\* out or are cancelled, at most max_concurrent wrapped functions run at the
\* same time and active_count stays within 0..max_concurrent.
C17_BulkheadBound ==
    /\ Cardinality(Running) <= MaxConcurrent
    /\ active_count \in 0..MaxConcurrent

\* The bulkhead is full, and a call that found it full has waited past the
\* deadline.
C17_Witness ==
    /\ Cardinality(Running) = MaxConcurrent
    /\ active_count = MaxConcurrent
    /\ \E c \in Calls : call_pc[c] = "timed_out"

ShapeTransfers(dd, block_number, shape) ==
    CASE shape = 1 -> DirectTransfers(dd, block_number, 1)
      [] shape = 2 -> PatternTransfers(dd, block_number, 1, 1)
                      \o PatternTransfers(dd, block_number, 2, 1)
      [] shape = 3 -> PatternTransfers(dd, block_number, 3, 1)
      [] shape = 4 -> PatternTransfers(dd, block_number, 4, 1)

\* C19 (one shape per term): the transfers returned for a term are those of
\* one shape alone; a term written in several shapes never yields the
\* transfers of more than one of them.
C19_TransfersFromOneShape ==
    transfers # <<>> =>
        \E shape \in 1..4 :
            transfers = ShapeTransfers(deploy_data, DeployBlock.blockNumber, shape)

\* C20 (status follows errored): every Transfer stored for a deployment is
\* "failed" exactly when the stored Deployment row has errored = TRUE.
C20_StatusFollowsErrored ==
    \A dp \in db.deployments : \A t \in db.transfers :
        t.deploy_id = dp.deploy_id => (t.status = "failed" <=> dp.errored)

\* The statements of a term that carry an amount above 0.
PositiveStatements(term) ==
    {i \in 1..Len(term) : term[i].kind # "bind" /\ term[i].amount > 0}

\* C21 (positive amounts): every Transfer returned by _extract_transfers and
\* every Transfer row written, by extraction or by the genesis bootstrap, has
\* amount_dust > 0; a statement whose amount is 0 yields no transfer, so a
\* term yields at most as many transfers as it has statements with an amount
\* above 0.
C21_TransferAmountsPositive ==
    /\ \A i \in 1..Len(transfers) : transfers[i].amount_dust > 0
    /\ \A t \in db.transfers : t.amount_dust > 0
    /\ Len(transfers) <= Cardinality(PositiveStatements(deploy_data.term))

\* A term with a resolvable vault transfer of amount 0 beside one of amount 5
\* has been processed: one transfer came out of it.
C21_Witness ==
    /\ db.deployments # {}
    /\ Len(transfers) = 1
    /\ \E i \in 1..Len(deploy_data.term) :
          /\ MatchesPattern(1, deploy_data.term[i])
          /\ IsAddress(deploy_data.term[i].to)
          /\ deploy_data.term[i].amount = 0

\* C22 (exact token amount): for every Transfer row written, extracted from
\* a term or synthesized at genesis, amount_asi * 10^8 = amount_dust: the
\* stored token amount, counted in its last decimal place, is the dust amount.
C22_TokenAmountExact ==
    \A t \in db.transfers : t.amount_asi = t.amount_dust

\* The addresses a term binds the variable v to, an address being a string of
\* 53 to 56 characters that starts with 1111.
BoundTo(term, v) ==
    {term[i].to : i \in {j \in 1..Len(term) :
                            /\ term[j].kind = "bind" /\ term[j].var = v
                            /\ term[j].to.starts1111 /\ term[j].to.len \in 53..56}}

\* The term holds nothing but bindings and vault transfers to a variable.
OnlyVariableTransfers(term) ==
    \A i \in 1..Len(term) : term[i].kind = "bind" \/ MatchesPattern(2, term[i])

\* C23 (variable recipient): in a processed term without a direct transfer,
\* a vault transfer of an amount above 0 to a variable that the term binds to
\* an address yields a transfer from the deployer to a bound address; when
\* the term holds only vault transfers to variables and binds none of them to
\* an address, it yields no transfer.
C23_VariableRecipientResolved ==
    db.deployments # {} =>
        LET term == deploy_data.term IN
        /\ \A k \in 1..Len(term) :
              (/\ MatchesPattern(2, term[k])
               /\ term[k].amount > 0
               /\ \A i \in 1..Len(term) : ~MatchesDirect(term[i])
               /\ BoundTo(term, term[k].var) # {})
              => \E j \in 1..Len(transfers) :
                    /\ transfers[j].from_address = deploy_data.deployer
                    /\ transfers[j].to_address \in BoundTo(term, term[k].var)
                    /\ transfers[j].amount_dust = term[k].amount
        /\ (/\ OnlyVariableTransfers(term)
            /\ \A k \in 1..Len(term) :
                  MatchesPattern(2, term[k]) => BoundTo(term, term[k].var) = {})
           => transfers = <<>>

\* A call leaves the wrapped function with an Exception in this step.
CallFails == \E c \in CircuitCalls : cb_pc[c] = "running" /\ cb_pc'[c] = "raised"

\* C24 (circuit transitions): the state only moves closed -> open,
\* open -> half_open, half_open -> closed and half_open -> open; a closed
\* circuit opens exactly in the step in which a failure takes failure_count
\* from below failure_threshold to it, and every failure recorded while
\* half_open opens the circuit.
C24_CircuitTransitions ==
    [][/\ circuit'.state # circuit.state =>
            <<circuit.state, circuit'.state>> \in
                {<<"closed", "open">>, <<"open", "half_open">>,
                 <<"half_open", "closed">>, <<"half_open", "open">>}
       /\ circuit.state = "closed" =>
            (circuit'.state = "open" <=>
                /\ CallFails
                /\ circuit.failure_count < FailureThreshold
                /\ circuit'.failure_count >= FailureThreshold)
       /\ (circuit.state = "half_open" /\ CallFails) => circuit'.state = "open"
      ]_vars

\* The circuit has opened, turned half_open and closed again.
C24_Witness ==
    /\ circuit.state = "closed"
    /\ opened_at # NoTime

\* C25 (fail fast while open): while the circuit is open and the clock is
\* before next_attempt_time, a call that enters execute ends with
\* CircuitOpenException at once: it never reaches the wrapped function, and
\* the step leaves state, failure_count, success_count and next_attempt_time
\* as they were.
C25_OpenCircuitRejects ==
    [][(circuit.state = "open" /\ now < circuit.next_attempt_time) =>
          \A c \in CircuitCalls :
              cb_pc[c] # "running" =>
                  /\ cb_pc'[c] \in {cb_pc[c], "rejected"}
                  /\ cb_pc'[c] # cb_pc[c] => circuit' = circuit
      ]_vars

\* A call has been rejected by the open circuit before the deadline.
C25_Witness ==
    /\ circuit.state = "open"
    /\ now < circuit.next_attempt_time
    /\ \E c \in CircuitCalls : cb_pc[c] = "rejected"

\* A call enters execute in this step and is let through to the wrapped
\* function, or is turned away.
CallEnters(c) == cb_pc[c] # "running" /\ cb_pc'[c] # cb_pc[c]
CallSucceeds == \E c \in CircuitCalls : cb_pc[c] = "running" /\ cb_pc'[c] = "returned"

\* C26, first half: once recovery_timeout has passed since the circuit
\* opened, a call that enters execute turns the circuit half_open and
\* reaches the wrapped function.
C26_ResetAfterTimeout ==
    [][(circuit.state = "open" /\ now >= opened_at + RecoveryTimeout) =>
          \A c \in CircuitCalls :
              CallEnters(c) =>
                  cb_pc'[c] = "running" /\ circuit'.state = "half_open"
      ]_vars

\* C26, second half: a half_open circuit closes in the step that records the
\* success_threshold-th success since it turned half_open, and in no other.
C26_ClosesAtThreshold ==
    [][circuit.state = "half_open" =>
          /\ circuit.success_count < SuccessThreshold
          /\ circuit'.state = "closed" <=>
                (CallSucceeds /\ circuit.success_count + 1 = SuccessThreshold)
      ]_vars

\* C26 (recovery): once the circuit has been open for recovery_timeout the
\* next call turns it half_open and is let through, and it then closes
\* exactly at the success_threshold-th consecutive success recorded while
\* half_open, with several calls in flight at once.
C26_Recovery == C26_ResetAfterTimeout /\ C26_ClosesAtThreshold

\* C27 (executor fails fast): while the circuit of the executor is open and
\* the clock is before next_attempt_time, a call made through the executor
\* ends with CircuitOpenException in the same step: it is not handed
\* anything else, the wrapped function is not reached and nothing is slept.
C27_ExecutorFailsFast ==
    [][(circuit.state = "open" /\ now < circuit.next_attempt_time) =>
          \A c \in CircuitCalls :
              (cb_pc[c] # "running" /\ cb_pc'[c] # cb_pc[c]) =>
                  cb_pc'[c] = "rejected"
      ]_vars

\* C28 (retry terminates): execute calls the wrapped function at most
\* max_attempts times; when it returns, the call that succeeded was the last
\* one, made after one failed call per earlier attempt; and when execute ends
\* without a successful call, every one of the max_attempts calls having
\* failed, it ends with RetryExhaustedException carrying the error of the
\* last call.
C28_RetryTerminates ==
    /\ retry_out.calls <= config.max_attempts
    /\ retry_out.outcome = "returned" => retry_out.calls = attempt + 1
    /\ retry_out.outcome \notin {"idle", "running", "returned"} =>
          /\ retry_out.outcome = "retry_exhausted"
          /\ retry_out.calls = config.max_attempts
          /\ retry_out.carried = config.max_attempts

\* The callers waiting for a permit.
Waiting(pc) == {c \in Calls : pc[c] = "waiting"}

\* C29 (bounded queue): when no permit is free and queue_size callers are
\* waiting, a call that enters execute ends with BulkheadFullException in the
\* same step; hence never more than queue_size callers wait for a permit.
C29_WaitersBounded ==
    [][/\ (Locked(semaphore) /\ Cardinality(Waiting(call_pc)) >= QueueSize) =>
            \A c \in Calls :
                (NotInProgress(c) /\ call_pc'[c] # call_pc[c]) => call_pc'[c] = "full"
       /\ Cardinality(Waiting(call_pc')) <= QueueSize
      ]_vars

\* C30 (CLI calls behind the executor): every CLI process runs inside a call
\* that the circuit breaker of node_operations let through, and none is
\* spawned while that circuit is open before its deadline.
C30_CliBehindExecutor ==
    [][\A t \in Callers :
          (cli_pc[t] # "spawned" /\ cli_pc'[t] = "spawned") =>
              /\ \E c \in CircuitCalls : cb_pc'[c] = "running"
              /\ ~(circuit.state = "open" /\ now < circuit.next_attempt_time)
      ]_vars

\* ------------------------------------------------ the reorg check alone
RECURSIVE Indexed(_, _, _, _)
\* The store after _process_block ran without failure for the blocks k..n of
\* the chain whose block j had version sv[j].
Indexed(d, sv, k, n) ==
    IF k > n THEN d
    ELSE Indexed(ProcessBlock(d, BlockDetails(Hash(k, sv[k])), "none", FALSE).db,
                 sv, k + 1, n)

\* What the auxiliary loops (_check_epoch_transitions, _update_network_stats)
\* have recorded while the checkpoint moved up to n: nothing, or one epoch
\* and the statistics taken at block n.
AuxiliaryRows(n) ==
    {[epoch_transitions |-> {}, network_stats |-> {}],
     [epoch_transitions |-> {[epoch_number |-> 0]},
      network_stats |-> {[block_number |-> n]}]}

\* Any stored chain 0..n with its checkpoint at n, any canonical chain and
\* head of the node, any last_verified_block left by earlier checks.
InitDetect ==
    /\ \E n \in 0..MaxHead : \E sv \in [0..n -> 1..2] :
          /\ \E aux \in AuxiliaryRows(n) :
                db = [SetLastIndexedBlock(Indexed(EmptyStore, sv, 0, n), n)
                        EXCEPT !.epoch_transitions = aux.epoch_transitions,
                               !.network_stats = aux.network_stats]
          /\ last_verified_block \in 0..n
    /\ \E cv \in [0..MaxHead -> 1..2] :
          canon = [k \in 0..MaxBlock |-> IF k <= MaxHead THEN cv[k] ELSE 1]
    /\ head \in 0..MaxHead
    /\ chain_reorgs = 0
    /\ SyncIdle
    /\ reorg_pc = "idle"
    /\ reorg = NoReorg
    /\ AuxIdle

\* check_for_reorgs, called again and again; every store call succeeds.
SpecDetect == InitDetect /\ [][ReorgStep]_vars

\* The stored blocks of the window from..to whose hash is not the hash the
\* canonical answer gives for their number.
WindowMismatches(from, to) ==
    {k \in from..to : /\ k \in BlockNumbers(db)
                      /\ k <= head
                      /\ LocalHash(db, k) # CanonicalHash(k)}

NextPostFault == SyncStep \/ SyncPostFail \/ ChainGrow

SpecPostFault ==
    /\ Init
    /\ [][NextPostFault]_vars
    /\ WF_vars(SyncStep)
    /\ SF_vars(SyncPostCommit)

\* The BlockValidator rows of the stored block with hash h are complete.
HasValidatorRows(h) ==
    \A v \in BlockDetails(h).justifications :
        [block_hash |-> h, validator_public_key |-> v] \in db.block_validators

\* C32 (BlockValidator rows are retried): every block that is committed, with
\* the tick that stored it over, eventually has one BlockValidator row per
\* justification validator.
C32_ValidatorRowsRetried ==
    \A k \in 0..MaxHead :
        (sync_pc = "idle" /\ k \in BlockNumbers(db))
        ~> (k \in BlockNumbers(db) /\ HasValidatorRows(LocalHash(db, k)))

\* ------------------------------- the block transaction, call by call
\* _process_block, lines 238-253: the block is not stored, so the session of
\* the block transaction opens and the block is added to it ("txn").  The
\* CLI process of the tick's previous call is over.
TxnBegin ==
    /\ sync_pc = "loop"
    /\ idx <= Len(block_summaries)
    /\ IF AlreadyIndexed(db, BlockDetails(CurrentHash))
       THEN Counted("exists") /\ UNCHANGED cli_pc
       ELSE /\ sync_pc' = "txn"
            /\ cli_pc' = [cli_pc EXCEPT !["sync_tick"] = "idle"]
            /\ UNCHANGED <<last_indexed, latest_block_number, start,
                           block_summaries, idx, processed_count, failed_at,
                           outcome>>
    /\ UNCHANGED <<db>>
    /\ UNCHANGED chainVars
    /\ UNCHANGED reorgVars
    /\ UNCHANGED <<bulkheadVars, retryVars, extractVars, circuitVars, service_pc>>

\* _process_deployment_enhanced, line 339, called from line 282 with the
\* session of the block transaction: get_deploy_info runs the CLI.
DeployInfoCall ==
    /\ sync_pc = "txn"
    /\ BlockDetails(CurrentHash).deploys # {}
    /\ cli_pc["sync_tick"] = "idle"
    /\ RunCommand("sync_tick")

\* Lines 339-342: get_deploy_info returns or raises; the exception is logged.
DeployInfoEnd ==
    /\ sync_pc = "txn"
    /\ CommandEnd("sync_tick")

\* Lines 284-294: the rest of the block transaction and its commit.
TxnCommit ==
    /\ sync_pc = "txn"
    /\ LET p == BlockDetails(CurrentHash)
           m == ProcessMain(db, p, "none")
       IN /\ \/ p.deploys = {}
             \/ cli_pc["sync_tick"] \in {"returned", "failed", "timed_out"}
          /\ db' = m.db
          /\ IF ~m.ok THEN Skipped("txn_failed")
             ELSE IF p.justifications = {} THEN Counted("indexed")
             ELSE /\ sync_pc' = "post"
                  /\ outcome' = "committed"
                  /\ UNCHANGED <<last_indexed, latest_block_number, start,
                                 block_summaries, idx, processed_count,
                                 failed_at>>
    /\ UNCHANGED chainVars
    /\ UNCHANGED reorgVars
    /\ UNCHANGED auxVars

\* The sync tick with its block transaction taken call by call.
NextSession ==
    \/ SyncStart
    \/ SyncUpToDate
    \/ SyncPlan
    \/ TxnBegin
    \/ DeployInfoCall
    \/ DeployInfoEnd
    \/ TxnCommit
    \/ SyncPostCommit
    \/ SyncWrite
    \/ ChainGrow

SpecSession == Init /\ [][NextSession]_vars

\* C33 (no CLI call inside a session): the sync task never has a CLI process
\* running while the session of its block transaction is open.
C33_NoCliInsideSession ==
    ~(sync_pc = "txn" /\ cli_pc["sync_tick"] = "spawned")

\* ------------------------------------------------------ shutdown (main.py)
\* Everything but the service and the sync task stays as it is.
ServiceOnly ==
    /\ UNCHANGED <<db, cli_pc>>
    /\ UNCHANGED chainVars
    /\ UNCHANGED reorgVars
    /\ UNCHANGED <<bulkheadVars, retryVars, extractVars, circuitVars>>

\* handle_signal, lines 117-120: SIGINT or SIGTERM sets shutdown_event.
HandleSignal ==
    /\ service_pc = "running"
    /\ service_pc' = "signalled"
    /\ UNCHANGED syncVars
    /\ ServiceOnly

\* IndexerService.start, lines 98-108, once shutdown_event is set: stop()
\* (running = False, db.disconnect()), then indexer_task.cancel().  The
\* indexer task gets CancelledError at the await it is suspended in, which
\* no `except Exception` catches; the session it has open is closed without
\* a commit.
ServiceStop ==
    /\ service_pc = "signalled"
    /\ service_pc' = "stopped"
    /\ sync_pc' = "cancelled"
    /\ UNCHANGED <<last_indexed, latest_block_number, start, block_summaries, idx,
                   processed_count, failed_at, outcome>>
    /\ ServiceOnly

\* The sync loop of RustBlockIndexer.start under the service: a tick starts
\* while self.running holds.
ServiceSyncStart == service_pc # "stopped" /\ SyncStart
ServiceSyncUpToDate == service_pc # "stopped" /\ SyncUpToDate

NextShutdown ==
    \/ ServiceSyncStart
    \/ ServiceSyncUpToDate
    \/ SyncPlan
    \/ TxnBegin
    \/ DeployInfoCall
    \/ DeployInfoEnd
    \/ TxnCommit
    \/ SyncPostCommit
    \/ SyncWrite
    \/ ChainGrow
    \/ HandleSignal
    \/ ServiceStop

SpecShutdown == Init /\ [][NextShutdown]_vars

\* C34 (shutdown between batches): the service disconnects the store and
\* cancels the indexer task only while no tick of the sync loop is in
\* progress.
C34_StopsBetweenBatches ==
    [][(service_pc # "stopped" /\ service_pc' = "stopped") => sync_pc = "idle"]_vars

\* The Validator row of key in the table vs.
ValidatorRow(vs, key) == CHOOSE v \in vs : v.public_key = key

\* C35 (status after a refresh): after _update_validator_states ran with the
\* bonds B and the active set A, every validator of B has status "active"
\* when its key is in A and "bonded" otherwise.
C35_StatusFollowsActiveSet ==
    \A bonds \in NodeBonds, active_validators \in ActiveAnswers :
        LET vs == RefreshAll(db.validators, bonds, 1, active_validators,
                             GetLastIndexedBlock(db))
        IN \A i \in 1..Len(bonds) :
              ValidatorRow(vs, bonds[i].validator).status =
                  IF \E entry \in active_validators :
                         entry.validator = bonds[i].validator
                  THEN "active" ELSE "bonded"

\* The ways execute() raises BulkheadFullException.
RaisedBulkheadFull == {"full", "timed_out", "full_after_run"}

\* C36 (BulkheadFull only without a permit): execute raises
\* BulkheadFullException only for a caller that did not obtain a permit; what
\* the wrapped function raises, a timeout error included, reaches the caller
\* unchanged.
C36_FullOnlyWithoutPermit ==
    [][\A c \in Calls :
          (call_pc[c] \notin RaisedBulkheadFull /\ call_pc'[c] \in RaisedBulkheadFull)
          => call_pc[c] \in {"idle", "returned", "raised", "cancelled", "waiting"}]_vars

\* The rows of a table with a block_number column that lie below f.
Below(rows, f) == {x \in rows : x.block_number < f}

\* The BlockValidator rows of the blocks of d below f.
ValidatorRowsBelow(d, f) ==
    {x \in d.block_validators :
        \E b \in d.blocks : b.block_hash = x.block_hash /\ b.block_number < f}

\* C37 (frame of the rollback): _rollback_orphaned_data(fork) leaves every
\* Block, Deployment, Transfer, ValidatorBond, BlockValidator and BalanceState
\* row below the fork point as it is, and every Validator, EpochTransition and
\* NetworkStats row.
C37_RollbackFrame ==
    [][(reorg_pc = "rollback" /\ reorg_pc' = "rewind")
       => LET f == reorg.fork_point IN
          /\ Below(db.blocks, f) \subseteq db'.blocks
          /\ Below(db.deployments, f) \subseteq db'.deployments
          /\ Below(db.transfers, f) \subseteq db'.transfers
          /\ Below(db.validator_bonds, f) \subseteq db'.validator_bonds
          /\ Below(db.balance_states, f) \subseteq db'.balance_states
          /\ ValidatorRowsBelow(db, f) \subseteq db'.block_validators
          /\ db'.validators = db.validators
          /\ db'.epoch_transitions = db.epoch_transitions
          /\ db'.network_stats = db.network_stats]_vars

\* A rollback has run from a fork point above which rows were stored and
\* below which rows of every table are left.
C37_Witness ==
    /\ reorg_pc = "rewind"
    /\ reorg.fork_point >= 2
    /\ Below(db.blocks, reorg.fork_point) # {}
    /\ Below(db.deployments, reorg.fork_point) # {}
    /\ Below(db.transfers, reorg.fork_point) # {}
    /\ Below(db.validator_bonds, reorg.fork_point) # {}
    /\ Below(db.balance_states, reorg.fork_point) # {}
    /\ ValidatorRowsBelow(db, reorg.fork_point) # {}
    /\ db.validators # {}
    /\ db.epoch_transitions # {}
    /\ db.network_stats # {}
    /\ reorg.orphaned_blocks # <<>>

\* ------------------------------------ validators across a reorg (4.E, 4.H)
\* check_for_reorgs finds the chain of the node replaced from a height f of
\* its window on and _handle_reorg runs through: rollback, checkpoint rewind
\* to fork_point - 1, ReorgRecord.
HandleReorg ==
    /\ LET latest_local == GetLastIndexedBlock(db)
           check_from == CheckFrom(latest_local)
           check_to == CheckTo(latest_local)
       IN /\ Len(db.reorgs) < MaxChainReorgs
          /\ latest_local >= ConfirmationDepth
          /\ check_from < check_to
          /\ \E f \in check_from..check_to :
                LET canonical == [k \in check_from..check_to |->
                                     Hash(k, IF k >= f THEN 2 ELSE 1)]
                    found == DetectReorg(db, canonical, check_from, check_to)
                IN /\ found # NoReorg
                   /\ db' = RecordReorg(
                                SetLastIndexedBlock(
                                    RollbackOrphanedData(db, found.fork_point),
                                    RewindTo(found.fork_point)),
                                found)
    /\ UNCHANGED chainVars
    /\ UNCHANGED syncVars
    /\ UNCHANGED reorgVars
    /\ UNCHANGED auxVars

\* Block ingestion, validator refresh and reorg handling while the bonds and
\* the chain of the node change.
NextValidatorsReorg == IngestBlock \/ UpdateValidatorStates \/ HandleReorg

\* A store that holds the blocks 0..n of the node's first chain, for any n.
InitValidatorsReorg ==
    /\ \E n \in 0..MaxHead :
          /\ head = n
          /\ db = SetLastIndexedBlock(
                     Indexed(EmptyStore, [k \in 0..n |-> 1], 0, n), n)
    /\ canon = [k \in 0..MaxBlock |-> 1]
    /\ chain_reorgs = 0
    /\ SyncIdle
    /\ reorg_pc = "idle"
    /\ last_verified_block = 0
    /\ reorg = NoReorg
    /\ AuxIdle

SpecValidatorsReorg == InitValidatorsReorg /\ [][NextValidatorsReorg]_vars

\* C38 (first_seen_block): the first_seen_block of a Validator row never
\* changes once the row exists, and first_seen_block <= last_seen_block holds
\* for every row after every step, reorg rollbacks and the re-indexing of
\* lower blocks included.
C38_FirstSeenStable ==
    [][/\ \A v \in db.validators, w \in db'.validators :
            w.public_key = v.public_key
            => w.first_seen_block = v.first_seen_block
       /\ \A w \in db'.validators :
            w.first_seen_block <= w.last_seen_block]_vars

\* C39 (last_verified_block): last_verified_block never decreases, and when
\* check_for_reorgs advances it to v, every stored block of the checked
\* window [check_from, v] had a hash in the canonical answer and that hash
\* was the stored one.
C39_VerifiedMeansCompared ==
    [][/\ last_verified_block' >= last_verified_block
       /\ last_verified_block' # last_verified_block
          => \A k \in CheckFrom(GetLastIndexedBlock(db))..last_verified_block' :
                k \in BlockNumbers(db)
                => /\ k \in DOMAIN CanonicalBlocks(k, k)
                   /\ LocalHash(db, k) = CanonicalBlocks(k, k)[k]]_vars

\* C40 (bulkhead accounting): in every state of a Bulkhead, active_count plus
\* the free permits is max_concurrent, and while no execute() is in progress
\* active_count is 0 and every permit is free, whatever mix of returning,
\* failing, timed-out and cancelled calls came before.
C40_PermitAccounting ==
    /\ active_count + semaphore = MaxConcurrent
    /\ (\A c \in Calls : NotInProgress(c))
       => (active_count = 0 /\ semaphore = MaxConcurrent)
====
